---------------------------- MODULE Spec2Model ----------------------------
(***************************************************************************)
(* A model of the Overseer reconnaissance pipeline:                        *)
(*   modules/ct_enum.py       CTLogEnumerator  (enumerate, _query_*,       *)
(*                            _clean_subdomain)                            *)
(*   modules/dns_resolver.py  DNSResolver      (resolve_single,            *)
(*                            resolve_bulk)                                *)
(*   modules/geo_intel.py     GeoIntelligence  (locate_batch)              *)
(*   modules/map_generator.py TacticalMapGenerator (generate,              *)
(*                            get_marker_color)                            *)
(*   overseer.py              run_reconnaissance                           *)
(*                                                                         *)
(* Python strings that the code inspects character by character are        *)
(* sequences of one-character strings; Optional[str] is the empty set      *)
(* (None) or a singleton set.                                              *)
(***************************************************************************)
EXTENDS Integers, Sequences, FiniteSets, TLC

VARIABLES
    \* one call of CTLogEnumerator._clean_subdomain
    cs_pc, cs_name, cs_domain, cs_result,
    \* one call of CTLogEnumerator.enumerate
    en_pc, en_domain, en_attempt, en_subdomains, en_log,
    en_crt_results, en_certspotter_results, en_hackertarget_results,
    \* one call of GeoIntelligence.locate_batch
    geo_pc, geo_ips, geo_unique_ips, geo_batches, geo_batch_idx, geo_results,
    geo_log,
    \* one call of DNSResolver.resolve_bulk
    dns_pc, dns_subdomains, dns_max_workers, dns_submitted, dns_futures,
    dns_results, dns_interrupt,
    \* one call of TacticalMapGenerator.generate
    mg_pc, mg_points, mg_markers,
    \* one call of run_reconnaissance
    pp_pc, pp_target, pp_no_map, pp_subdomains, pp_subdomain_list,
    pp_dns_results, pp_alive_hosts, pp_geo_results, pp_records, pp_markers,
    pp_log,
    \* one call of GeoIntelligence.locate_single
    ls_pc, ls_ip, ls_resp, ls_result

cleanVars == <<cs_pc, cs_name, cs_domain, cs_result>>
enumVars  == <<en_pc, en_domain, en_attempt, en_subdomains, en_log,
               en_crt_results, en_certspotter_results, en_hackertarget_results>>
geoVars   == <<geo_pc, geo_ips, geo_unique_ips, geo_batches, geo_batch_idx,
               geo_results, geo_log>>
dnsVars   == <<dns_pc, dns_subdomains, dns_max_workers, dns_submitted, dns_futures,
               dns_results, dns_interrupt>>
mapVars   == <<mg_pc, mg_points, mg_markers>>
pipeVars  == <<pp_pc, pp_target, pp_no_map, pp_subdomains, pp_subdomain_list,
               pp_dns_results, pp_alive_hosts, pp_geo_results, pp_records,
               pp_markers, pp_log>>
singleVars == <<ls_pc, ls_ip, ls_resp, ls_result>>
vars      == <<cleanVars, enumVars, geoVars, dnsVars, mapVars, pipeVars, singleVars>>

---------------------------------------------------------------------------
(* Bounds of the model *)

\* longest organization text enumerated exhaustively for get_marker_color,
\* and the most points handed to one call of generate
MaxOrgLen == 3
MaxPoints == 3
\* the most names enumerate hands to the pipeline
PipeMaxSubs == 2
\* longest raw name enumerated exhaustively for _clean_subdomain
MaxNameLen == 4
\* the most names one provider response reports
PoolSize == 12
\* the most distinct addresses handed to locate_batch
GeoMaxIps == 201
\* the longest list handed to resolve_bulk, and the largest max_workers
DnsMaxNames == 3
DnsMaxWorkers == 2

---------------------------------------------------------------------------
(* Python str operations, on sequences of characters *)

NoneVal == {}
Some(x) == {x}

UpperChars == <<"A","B","C","D","E","F","G","H","I","J","K","L","M",
                "N","O","P","Q","R","S","T","U","V","W","X","Y","Z">>
LowerChars == <<"a","b","c","d","e","f","g","h","i","j","k","l","m",
                "n","o","p","q","r","s","t","u","v","w","x","y","z">>
Digits     == {"0","1","2","3","4","5","6","7","8","9"}
Whitespace == {" ", "\n", "\t", "\r"}

\* the class [a-z0-9] and the class [a-z0-9\-\.] of the pattern
AlNum   == {LowerChars[i] : i \in 1..26} \cup Digits
AlNumHD == AlNum \cup {"-", "."}

\* str.lower(), one character
LowerChar(c) ==
    IF \E i \in 1..26 : UpperChars[i] = c
    THEN LowerChars[CHOOSE i \in 1..26 : UpperChars[i] = c]
    ELSE c

\* str.lower()
StrLower(s) == [i \in 1..Len(s) |-> LowerChar(s[i])]

RECURSIVE LStrip(_)
LStrip(s) == IF s # <<>> /\ s[1] \in Whitespace THEN LStrip(Tail(s)) ELSE s

RECURSIVE RStrip(_)
RStrip(s) ==
    IF s # <<>> /\ s[Len(s)] \in Whitespace
    THEN RStrip(SubSeq(s, 1, Len(s) - 1))
    ELSE s

\* str.strip()
StrStrip(s) == RStrip(LStrip(s))

\* str.startswith / str.endswith
StartsWith(s, p) == Len(p) <= Len(s) /\ SubSeq(s, 1, Len(p)) = p
EndsWith(s, p) == Len(p) <= Len(s) /\ SubSeq(s, Len(s) - Len(p) + 1, Len(s)) = p

\* name.replace('*.', ''): every non-overlapping occurrence, left to right
RECURSIVE ReplaceWildcard(_)
ReplaceWildcard(s) ==
    IF Len(s) < 2 THEN s
    ELSE IF s[1] = "*" /\ s[2] = "."
         THEN ReplaceWildcard(SubSeq(s, 3, Len(s)))
         ELSE <<s[1]>> \o ReplaceWildcard(Tail(s))

\* the whole of s is [a-z0-9][a-z0-9\-\.]*[a-z0-9]
PatternBody(s) ==
    /\ Len(s) >= 2
    /\ s[1] \in AlNum
    /\ s[Len(s)] \in AlNum
    /\ \A i \in 2..(Len(s) - 1) : s[i] \in AlNumHD

\* re.match(r'^[a-z0-9][a-z0-9\-\.]*[a-z0-9]$', s): Python's $ also matches
\* just before one trailing newline
ReMatch(s) ==
    \/ PatternBody(s)
    \/ /\ s # <<>>
       /\ s[Len(s)] = "\n"
       /\ PatternBody(SubSeq(s, 1, Len(s) - 1))

---------------------------------------------------------------------------
(* CTLogEnumerator._clean_subdomain *)

\* the name after strip, lower and the wildcard step (lines 192-196)
CleanForm(name) ==
    LET n1 == StrLower(StrStrip(name))
    IN  IF StartsWith(n1, <<"*">>) THEN ReplaceWildcard(n1) ELSE n1

\* _clean_subdomain with the base-domain test (lines 203-204) left out
CleanSubdomainNoBaseTest(name, domain) ==
    LET n == CleanForm(name)
    IN  IF ~EndsWith(n, domain) THEN NoneVal
        ELSE IF ~ReMatch(n) THEN NoneVal
        ELSE Some(n)

_clean_subdomain(name, domain) ==
    LET n == CleanForm(name)
    IN  IF ~EndsWith(n, domain) THEN NoneVal
        ELSE IF n = domain THEN NoneVal
        ELSE IF ~ReMatch(n) THEN NoneVal
        ELSE Some(n)

\* the characters raw names are built from: a lower-case and an upper-case
\* letter, the wildcard marker, the dot, the hyphen and a whitespace
CleanAlphabet == {"a", "A", "*", ".", "-", "\n"}

RECURSIVE SeqsUpTo(_, _)
SeqsUpTo(S, n) ==
    IF n = 0 THEN {<<>>}
    ELSE LET shorter == SeqsUpTo(S, n - 1)
         IN  shorter \cup {<<c>> \o s : c \in S, s \in {t \in shorter : Len(t) = n - 1}}

ExampleCom      == <<"e","x","a","m","p","l","e",".","c","o","m">>
WildcardExample == <<"*",".">> \o ExampleCom
UpperExample    == <<"W","W","W",".","E","x","a","m","p","l","e",".","c","o","m">>
WwwExample      == <<"w","w","w",".">> \o ExampleCom
NotExampleOrg   == <<"n","o","t","e","x","a","m","p","l","e",".","o","r","g">>

RawNames == SeqsUpTo(CleanAlphabet, MaxNameLen)
                \cup {WildcardExample, UpperExample, NotExampleOrg}
CleanDomains == {<<"a">>, <<"a", ".", "a">>, ExampleCom}

InitClean ==
    /\ cs_pc = "idle"
    /\ cs_name = <<>>
    /\ cs_domain = <<>>
    /\ cs_result = NoneVal

\* one call _clean_subdomain(name, domain)
CleanCall ==
    /\ cs_pc = "idle"
    /\ \E name \in RawNames, domain \in CleanDomains :
          /\ cs_name' = name
          /\ cs_domain' = domain
          /\ cs_result' = _clean_subdomain(name, domain)
    /\ cs_pc' = "done"
    /\ UNCHANGED <<enumVars, geoVars, dnsVars, mapVars, pipeVars, singleVars>>

---------------------------------------------------------------------------
(* HTTP responses of the three providers, as the code reads them *)

\* session.get raised requests.exceptions.Timeout / ConnectionError
RespTimeout == [exc |-> "Timeout", status |-> 0, body |-> [t |-> "none"]]
RespConnErr == [exc |-> "ConnectionError", status |-> 0, body |-> [t |-> "none"]]
\* session.get returned a response with this status code and body
RespHttp(status, body) == [exc |-> "none", status |-> status, body |-> body]

BodyBlank      == [t |-> "blank"]                  \* response.text is blank
BodyNotJson    == [t |-> "not_json"]               \* response.json() raises ValueError
BodyJson(data) == [t |-> "json", data |-> data]    \* response.json() returns data
BodyText(text) == [t |-> "text", text |-> text]    \* response.text, plain text

\* JSON values: a list of items, or null; an item is an object (dict) or a scalar
JsonList(items) == [t |-> "list", items |-> items]
JsonNull        == [t |-> "null", items |-> <<>>]
JsonScalar      == [t |-> "scalar"]
\* a crt.sh entry {"name_value": ...} and a CertSpotter entry {"dns_names": [...]}
CrtEntry(name_value) == [t |-> "dict", name_value |-> name_value]
CertEntry(dns_names) == [t |-> "dict", dns_names |-> dns_names]

\* response.raise_for_status() raises HTTPError (a RequestException)
RaisesForStatus(status) == status >= 400

\* str.split(sep) for a one-character separator
RECURSIVE SplitOn(_, _)
SplitOn(s, sep) ==
    IF \A i \in 1..Len(s) : s[i] # sep THEN <<s>>
    ELSE LET i == CHOOSE k \in 1..Len(s) :
                     s[k] = sep /\ \A j \in 1..(k - 1) : s[j] # sep
         IN  <<SubSeq(s, 1, i - 1)>> \o SplitOn(SubSeq(s, i + 1, Len(s)), sep)

\* needle in s
Contains(s, needle) ==
    \E i \in 1..(Len(s) - Len(needle) + 1) :
        SubSeq(s, i, i + Len(needle) - 1) = needle

\* the names of a sequence of raw names that _clean_subdomain accepts
CleanAll(names, domain) ==
    UNION {_clean_subdomain(names[i], domain) : i \in 1..Len(names)}

\* the index of the first item that is no dict (entry.get raises
\* AttributeError on it), 0 when there is none
FirstBad(items) ==
    IF \A i \in 1..Len(items) : items[i].t = "dict" THEN 0
    ELSE CHOOSE i \in 1..Len(items) :
             items[i].t # "dict" /\ \A j \in 1..(i - 1) : items[j].t = "dict"

\* iterating the parsed JSON raises: TypeError on null, AttributeError on an
\* item that is no dict
JsonRaises(data) == data.t = "null" \/ FirstBad(data.items) # 0

\* the number of items the loop handles before it ends or raises
ItemsHandled(data) ==
    IF data.t = "null" THEN 0
    ELSE IF FirstBad(data.items) = 0 THEN Len(data.items)
    ELSE FirstBad(data.items) - 1

\* the loop over crt.sh's entries (lines 104-111): the names added to the
\* local set, and whether an exception was raised
ParseCrt(data, domain) ==
    [raised |-> JsonRaises(data),
     names  |-> UNION {CleanAll(SplitOn(data.items[i].name_value, "\n"), domain) :
                          i \in 1..ItemsHandled(data)}]

\* the loop over CertSpotter's entries (lines 142-147)
ParseCertspotter(data, domain) ==
    [raised |-> JsonRaises(data),
     names  |-> UNION {CleanAll(data.items[i].dns_names, domain) :
                          i \in 1..ItemsHandled(data)}]

ErrorWord == <<"e","r","r","o","r">>

\* HackerTarget's plain text, "subdomain,IP" per line (lines 169-176)
ParseHackertarget(text, domain) ==
    LET lines == SplitOn(StrStrip(text), "\n")
        good  == {i \in 1..Len(lines) :
                     /\ Contains(lines[i], <<",">>)
                     /\ ~Contains(StrLower(lines[i]), ErrorWord)}
    IN  UNION {_clean_subdomain(StrStrip(SplitOn(lines[i], ",")[1]), domain) : i \in good}

---------------------------------------------------------------------------
(* CTLogEnumerator.enumerate and its three provider queries *)

MAX_RETRIES == 3
RETRY_DELAY == 2

EnumDomain == <<"t",".","i","o">>

\* the i-th subdomain a provider may report: "a.t.io", "b.t.io", ...
Sub(i) == <<LowerChars[i], ".">> \o EnumDomain
\* names a provider may report that are no subdomain of the target
WildcardBase == <<"*",".">> \o EnumDomain
ForeignName  == <<"a",".","t",".","c","o">>
\* a name of another domain that ends with the target's characters: "at.io"
BoundaryName == <<"a">> \o EnumDomain

\* s1 + "\n" + s2 + ...
RECURSIVE JoinLines(_)
JoinLines(ss) ==
    IF ss = <<>> THEN <<>>
    ELSE IF Len(ss) = 1 THEN ss[1]
    ELSE ss[1] \o <<"\n">> \o JoinLines(Tail(ss))

\* how many names the modelled responses report: around both thresholds
ResponseSizes == {0, 4, 5, 9, 10, PoolSize}

\* crt.sh JSON: one entry per certificate, the first one naming the wildcard,
\* a foreign name and an upper-case spelling beside its subdomain
CrtItems(lo, hi) ==
    [k \in 1..(hi - lo + 1) |->
        IF k = 1
        THEN CrtEntry(JoinLines(<<WildcardBase, ForeignName,
                                  <<UpperChars[lo], ".">> \o EnumDomain>>))
        ELSE CrtEntry(Sub(lo + k - 1))]

\* CertSpotter JSON: entries of two dns_names each
CertItems(lo, hi) ==
    [k \in 1..(hi - lo + 1) |-> CertEntry(<<WildcardBase, Sub(lo + k - 1)>>)]

\* HackerTarget text: "name,ip" lines
HackertargetText(lo, hi) ==
    JoinLines([k \in 1..(hi - lo + 1) |-> Sub(lo + k - 1) \o <<",","1",".","1">>])

\* a subdomain whose first label is the word "error": "error.t.io"
ErrorName == <<"e","r","r","o","r",".">> \o EnumDomain

\* what one GET of the primary provider may produce
CrtResponses ==
    {RespTimeout, RespConnErr,
     RespHttp(503, BodyBlank), RespHttp(500, BodyBlank), RespHttp(404, BodyBlank),
     RespHttp(200, BodyBlank), RespHttp(200, BodyNotJson),
     RespHttp(200, BodyJson(JsonNull)),
     RespHttp(200, BodyJson(JsonList(CrtItems(1, 2) \o <<JsonScalar>>))),
     RespHttp(200, BodyJson(JsonList(<<CrtEntry(JoinLines(<<Sub(1), BoundaryName>>))>>)))}
    \cup {RespHttp(200, BodyJson(JsonList(CrtItems(1, n)))) : n \in ResponseSizes}

CertspotterResponses ==
    {RespTimeout, RespHttp(429, BodyBlank), RespHttp(200, BodyNotJson),
     RespHttp(200, BodyJson(JsonList(CertItems(1, 2) \o <<JsonScalar>>))),
     RespHttp(200, BodyJson(JsonList(CertItems(3, 7))))}
    \cup {RespHttp(200, BodyJson(JsonList(CertItems(1, n)))) : n \in ResponseSizes}

HackertargetResponses ==
    {RespConnErr, RespHttp(500, BodyBlank),
     RespHttp(200, BodyText(<<"e","r","r","o","r"," ","c","h","e","c","k">>)),
     RespHttp(200, BodyText(HackertargetText(1, 3))),
     RespHttp(200, BodyText(JoinLines(<<ErrorName \o <<",","1",".","1">>,
                                        HackertargetText(1, 1)>>))),
     RespHttp(200, BodyText(HackertargetText(4, 8)))}

\* CrtOutcome with the Timeout clause shadowed by the RequestException
\* clause (Timeout is a RequestException): a timeout abandons the provider
CrtOutcomeTimeoutBreaks(resp, domain) ==
    IF resp.exc # "none" THEN "request_exception"
    ELSE IF resp.status = 503 THEN "unavailable"
    ELSE IF RaisesForStatus(resp.status) THEN "request_exception"
    ELSE IF resp.body.t = "blank" THEN "blank"
    ELSE IF resp.body.t = "not_json" THEN "value_error"
    ELSE IF ParseCrt(resp.body.data, domain).raised THEN "uncaught"
    ELSE "parsed"

\* CrtOutcome with invalid JSON handled like a timeout (continue, not break)
CrtOutcomeRetriesBadJson(resp, domain) ==
    IF resp.exc = "Timeout" THEN "timeout"
    ELSE IF resp.exc # "none" THEN "request_exception"
    ELSE IF resp.status = 503 THEN "unavailable"
    ELSE IF RaisesForStatus(resp.status) THEN "request_exception"
    ELSE IF resp.body.t = "blank" THEN "blank"
    ELSE IF resp.body.t = "not_json" THEN "timeout"
    ELSE IF ParseCrt(resp.body.data, domain).raised THEN "uncaught"
    ELSE "parsed"

\* what the code makes of one GET of the primary provider, in the order of
\* its tests (lines 85-125)
CrtOutcome(resp, domain) ==
    IF resp.exc = "Timeout" THEN "timeout"
    ELSE IF resp.exc # "none" THEN "request_exception"
    ELSE IF resp.status = 503 THEN "unavailable"
    ELSE IF RaisesForStatus(resp.status) THEN "request_exception"
    ELSE IF resp.body.t = "blank" THEN "blank"
    ELSE IF resp.body.t = "not_json" THEN "value_error"
    ELSE IF ParseCrt(resp.body.data, domain).raised THEN "uncaught"
    ELSE "parsed"

\* log entries: an outbound request with what came of it, and a sleep
GetEvent(src, resp, outcome) ==
    [op |-> "get", src |-> src, exc |-> resp.exc, status |-> resp.status,
     body |-> resp.body.t, resp |-> resp, outcome |-> outcome, secs |-> 0]
SleepEvent(secs) ==
    [op |-> "sleep", src |-> "time", exc |-> "none", status |-> 0,
     body |-> "none", resp |-> RespTimeout, outcome |-> "slept", secs |-> secs]

\* the sleep after a 503 on attempt index `attempt` (line 94)
UnavailableDelay(attempt) == RETRY_DELAY * (attempt + 1)
\* the sleep after a timeout on attempt index `attempt` (line 119)
TimeoutDelay(attempt) == RETRY_DELAY

InitEnum ==
    /\ en_pc = "idle"
    /\ en_domain = <<>>
    /\ en_attempt = 0
    /\ en_subdomains = {}
    /\ en_log = <<>>
    /\ en_crt_results = {}
    /\ en_certspotter_results = {}
    /\ en_hackertarget_results = {}

\* enumerate(domain) up to the call of _query_crtsh (lines 53-58)
EnumerateCall ==
    /\ en_pc = "idle"
    /\ en_pc' = "crtsh"
    /\ en_domain' = EnumDomain
    /\ en_attempt' = 0
    /\ en_subdomains' = {}
    /\ UNCHANGED <<en_log, en_crt_results, en_certspotter_results,
                   en_hackertarget_results>>
    /\ UNCHANGED <<cleanVars, geoVars, dnsVars, mapVars, pipeVars, singleVars>>

\* _query_crtsh returns `names` to enumerate, which merges them (lines 58-59)
CrtshReturn(names) ==
    /\ en_crt_results' = names
    /\ en_subdomains' = en_subdomains \cup names
    /\ en_pc' = "certspotter"

\* a loop that allows one attempt more than MAX_RETRIES
InRetryRangeOneMore(attempt) == attempt < MAX_RETRIES + 1

\* for attempt in range(self.MAX_RETRIES) (line 84): whether the loop has
\* an iteration with this index
InRetryRange(attempt) == attempt < MAX_RETRIES

\* one iteration of the retry loop of _query_crtsh (lines 84-125)
CrtshAttempt ==
    /\ en_pc = "crtsh"
    /\ InRetryRange(en_attempt)
    /\ \E resp \in CrtResponses :
        LET outcome == CrtOutcome(resp, en_domain)
            get     == GetEvent("crtsh", resp, outcome)
            last    == ~InRetryRange(en_attempt + 1)
            retry(delay) ==
                /\ en_log' = IF en_attempt < MAX_RETRIES - 1
                             THEN en_log \o <<get, SleepEvent(delay)>>
                             ELSE en_log \o <<get>>
                /\ en_attempt' = en_attempt + 1
                /\ IF last
                   THEN CrtshReturn({})
                   ELSE UNCHANGED <<en_pc, en_crt_results, en_subdomains>>
        IN  CASE outcome = "unavailable" -> retry(UnavailableDelay(en_attempt))
              [] outcome = "timeout" -> retry(TimeoutDelay(en_attempt))
              [] outcome \in {"request_exception", "value_error", "blank"} ->
                    /\ en_log' = en_log \o <<get>>
                    /\ CrtshReturn({})
                    /\ UNCHANGED en_attempt
              [] outcome = "parsed" ->
                    /\ en_log' = en_log \o <<get>>
                    /\ CrtshReturn(ParseCrt(resp.body.data, en_domain).names)
                    /\ UNCHANGED en_attempt
              [] outcome = "uncaught" ->
                    \* AttributeError / TypeError: no except clause matches,
                    \* it leaves _query_crtsh and enumerate
                    /\ en_log' = en_log \o <<get>>
                    /\ en_pc' = "raised"
                    /\ UNCHANGED <<en_attempt, en_crt_results, en_subdomains>>
    /\ UNCHANGED <<en_domain, en_certspotter_results, en_hackertarget_results>>
    /\ UNCHANGED <<cleanVars, geoVars, dnsVars, mapVars, pipeVars, singleVars>>

\* what _query_certspotter returns for a response (lines 131-155): the names
\* added before an exception, if any, are returned
QueryCertspotterResult(resp, domain) ==
    IF resp.exc # "none" \/ RaisesForStatus(resp.status) \/ resp.body.t # "json"
    THEN [failed |-> TRUE, names |-> {}]
    ELSE LET p == ParseCertspotter(resp.body.data, domain)
         IN  [failed |-> p.raised, names |-> p.names]

\* what _query_hackertarget returns for a response (lines 159-184)
QueryHackertargetResult(resp, domain) ==
    IF resp.exc # "none" \/ RaisesForStatus(resp.status)
    THEN [failed |-> TRUE, names |-> {}]
    ELSE [failed |-> FALSE, names |-> ParseHackertarget(resp.body.text, domain)]

\* line 62
NeedsCertspotter(subdomains) == Cardinality(subdomains) < 10
\* line 68
NeedsHackertarget(subdomains) == Cardinality(subdomains) < 5

\* lines 62-65, the branch taken
CertspotterQuery ==
    /\ en_pc = "certspotter"
    /\ NeedsCertspotter(en_subdomains)
    /\ \E resp \in CertspotterResponses :
        LET r == QueryCertspotterResult(resp, en_domain)
        IN  /\ en_log' = en_log \o
                  <<GetEvent("certspotter", resp, IF r.failed THEN "failed" ELSE "parsed")>>
            /\ en_certspotter_results' = r.names
            /\ en_subdomains' = en_subdomains \cup r.names
    /\ en_pc' = "hackertarget"
    /\ UNCHANGED <<en_domain, en_attempt, en_crt_results, en_hackertarget_results>>
    /\ UNCHANGED <<cleanVars, geoVars, dnsVars, mapVars, pipeVars, singleVars>>

\* line 62, the branch not taken
CertspotterSkip ==
    /\ en_pc = "certspotter"
    /\ ~NeedsCertspotter(en_subdomains)
    /\ en_pc' = "hackertarget"
    /\ UNCHANGED <<en_domain, en_attempt, en_subdomains, en_log, en_crt_results,
                   en_certspotter_results, en_hackertarget_results>>
    /\ UNCHANGED <<cleanVars, geoVars, dnsVars, mapVars, pipeVars, singleVars>>

\* lines 68-78, the branch taken, and the return
HackertargetQuery ==
    /\ en_pc = "hackertarget"
    /\ NeedsHackertarget(en_subdomains)
    /\ \E resp \in HackertargetResponses :
        LET r == QueryHackertargetResult(resp, en_domain)
        IN  /\ en_log' = en_log \o
                  <<GetEvent("hackertarget", resp, IF r.failed THEN "failed" ELSE "parsed")>>
            /\ en_hackertarget_results' = r.names
            /\ en_subdomains' = en_subdomains \cup r.names
    /\ en_pc' = "done"
    /\ UNCHANGED <<en_domain, en_attempt, en_crt_results, en_certspotter_results>>
    /\ UNCHANGED <<cleanVars, geoVars, dnsVars, mapVars, pipeVars, singleVars>>

\* line 68, the branch not taken, and the return
HackertargetSkip ==
    /\ en_pc = "hackertarget"
    /\ ~NeedsHackertarget(en_subdomains)
    /\ en_pc' = "done"
    /\ UNCHANGED <<en_domain, en_attempt, en_subdomains, en_log, en_crt_results,
                   en_certspotter_results, en_hackertarget_results>>
    /\ UNCHANGED <<cleanVars, geoVars, dnsVars, mapVars, pipeVars, singleVars>>

NextEnum ==
    \/ EnumerateCall
    \/ CrtshAttempt
    \/ CertspotterQuery
    \/ CertspotterSkip
    \/ HackertargetQuery
    \/ HackertargetSkip

---------------------------------------------------------------------------
(* GeoIntelligence.locate_batch *)

BATCH_SIZE == 100
\* RATE_LIMIT_DELAY = 1.5 seconds, in milliseconds
RATE_LIMIT_DELAY_MS == 1500

\* Addresses are the integers 1, 2, ...; 0 stands for the empty string, the
\* default of item.get('query', '').  A dict is a function on its keys.
EmptyAddr == 0

\* GeoData(ip=ip, success=False): every other field None
GeoDataFailed(ip) ==
    [ip |-> ip, country |-> "None", country_code |-> "None", region |-> "None",
     city |-> "None", lat |-> "None", lon |-> "None", isp |-> "None",
     org |-> "None", as_number |-> "None", success |-> FALSE]

\* GeoData built from a response item that reports success (lines 143-155)
GeoDataFromItem(ip, item) ==
    [ip |-> ip, country |-> item.country, country_code |-> item.countryCode,
     region |-> item.regionName, city |-> item.city, lat |-> item.lat,
     lon |-> item.lon, isp |-> item.isp, org |-> item.org,
     as_number |-> item.as, success |-> TRUE]

\* results[ip] = value
DictSet(results, ip, value) ==
    [a \in DOMAIN results \cup {ip} |-> IF a = ip THEN value ELSE results[a]]

\* a field value that is a JSON array or object: a Python list or dict,
\* truthy and unhashable
UnhashableValue == "[unhashable]"

\* one item of the provider's answer, as parsed JSON
GeoItem(query, status, country) ==
    [t |-> "dict", query |-> query, status |-> status, country |-> country,
     countryCode |-> "CC", regionName |-> "Region", city |-> "City",
     lat |-> "lat", lon |-> "lon", isp |-> "ISP", org |-> "ORG", as |-> "AS"]

\* the record the loop body stores for one item (lines 140-157)
ItemRecord(item) ==
    IF item.status = "success"
    THEN GeoDataFromItem(item.query, item)
    ELSE GeoDataFailed(item.query)

\* the loop over the answer (lines 139-159), for its first k items: every
\* item is stored under its 'query', a later item replacing an earlier one
StoreItems(results, items, k) ==
    LET written == {items[i].query : i \in 1..k}
        at(a)   == {i \in 1..k : items[i].query = a}
        last(a) == CHOOSE i \in at(a) : \A j \in at(a) : j <= i
    IN  [a \in DOMAIN results \cup written |->
            IF a \in written THEN ItemRecord(items[last(a)]) ELSE results[a]]

\* the except clause (lines 168-170): the addresses of the batch that have
\* no record yet get a failed one
MarkFailedBatch(results, batch) ==
    [a \in DOMAIN results \cup {batch[i] : i \in 1..Len(batch)} |->
        IF a \in DOMAIN results THEN results[a] ELSE GeoDataFailed(a)]

\* list(set(ips)): the distinct addresses, in one of the orders a set may
\* give them
Ascending(S) ==
    [i \in 1..Cardinality(S) |->
        CHOOSE a \in S : Cardinality({b \in S : b < a}) = i - 1]
Descending(S) ==
    [i \in 1..Cardinality(S) |->
        CHOOSE a \in S : Cardinality({b \in S : b > a}) = i - 1]
SetOf(seq) == {seq[i] : i \in 1..Len(seq)}
UniqueOrders(ips) == {Ascending(SetOf(ips)), Descending(SetOf(ips))}

\* slices that take one address more than BATCH_SIZE, so that neighbouring
\* slices share an address
SplitBatchesOverlapping(unique_ips) ==
    [b \in 1..((Len(unique_ips) + BATCH_SIZE - 1) \div BATCH_SIZE) |->
        SubSeq(unique_ips, (b - 1) * BATCH_SIZE + 1,
               IF b * BATCH_SIZE < Len(unique_ips) THEN b * BATCH_SIZE + 1
               ELSE Len(unique_ips))]

\* line 115: slices of BATCH_SIZE addresses
SplitBatches(unique_ips) ==
    [b \in 1..((Len(unique_ips) + BATCH_SIZE - 1) \div BATCH_SIZE) |->
        SubSeq(unique_ips, (b - 1) * BATCH_SIZE + 1,
               IF b * BATCH_SIZE < Len(unique_ips) THEN b * BATCH_SIZE
               ELSE Len(unique_ips))]

\* the input lists: n distinct addresses, alone or with the first two given
\* twice
GeoSizes == {0, 1, 2, BATCH_SIZE, BATCH_SIZE + 1, BATCH_SIZE + 50, GeoMaxIps}
GeoInputs ==
    {[i \in 1..n |-> i] : n \in GeoSizes}
        \cup {[i \in 1..n |-> i] \o <<1, 2>> : n \in GeoSizes \ {0, 1}}

\* an answer with one item per address of the batch, in the batch's order
\* with the status the provider reports for each address
StatusOf(pattern, a) ==
    IF pattern = "all" \/ (pattern = "odd" /\ a % 2 = 1) THEN "success" ELSE "fail"
FullItems(batch, pattern, country) ==
    [i \in 1..Len(batch) |-> GeoItem(batch[i], StatusOf(pattern, batch[i]), country)]

\* what the POST of one batch may produce
GeoResponses(batch, unique_ips) ==
    {RespTimeout, RespHttp(429, BodyBlank), RespHttp(200, BodyNotJson),
     \* one item per address
     RespHttp(200, BodyJson(JsonList(FullItems(batch, "all", "US")))),
     RespHttp(200, BodyJson(JsonList(FullItems(batch, "none", "None")))),
     RespHttp(200, BodyJson(JsonList(FullItems(batch, "odd", "US")))),
     \* the last address of the batch has no item
     RespHttp(200, BodyJson(JsonList(
         SubSeq(FullItems(batch, "all", "US"), 1, Len(batch) - 1)))),
     \* an item more, without a 'query' key
     RespHttp(200, BodyJson(JsonList(
         FullItems(batch, "all", "US") \o <<GeoItem(EmptyAddr, "success", "US")>>))),
     \* an item more, for the last address of the whole input
     RespHttp(200, BodyJson(JsonList(
         FullItems(batch, "none", "None")
             \o <<GeoItem(unique_ips[Len(unique_ips)], "success", "US")>>))),
     \* the first item is well formed, the second is no object
     RespHttp(200, BodyJson(JsonList(
         <<GeoItem(batch[1], "success", "US"), JsonScalar>>))),
     \* a JSON object instead of a list: iterating it yields its keys
     RespHttp(200, BodyJson(JsonList(<<JsonScalar>>))),
     \* every 'country' is a JSON array
     RespHttp(200, BodyJson(JsonList(FullItems(batch, "all", UnhashableValue))))}

\* the POST, raise_for_status or json() raised (lines 130-136)
GeoQueryFails(resp) ==
    resp.exc # "none" \/ RaisesForStatus(resp.status) \/ resp.body.t # "json"

\* what one pass of the loop body leaves in results (lines 126-171)
BatchResults(results, batch, resp) ==
    IF GeoQueryFails(resp) THEN MarkFailedBatch(results, batch)
    ELSE LET data   == resp.body.data
             stored == StoreItems(results, data.items, ItemsHandled(data))
         IN  IF JsonRaises(data) THEN MarkFailedBatch(stored, batch) ELSE stored

\* whether the pass reaches line 162 (no exception before it)
BatchSucceeds(resp) == ~GeoQueryFails(resp) /\ ~JsonRaises(resp.body.data)

\* the records the loop over the answer stored before it ended or raised
\* (lines 139-159), by address
StoredByAnswer(resp) ==
    IF GeoQueryFails(resp) THEN <<>>
    ELSE StoreItems(<<>>, resp.body.data.items, ItemsHandled(resp.body.data))

\* the POST of one batch: its addresses, whether the query itself failed,
\* whether the pass ended without exception, and what the answer stored
PostEvent(batch_idx, batch, resp) ==
    [op |-> "post", batch_idx |-> batch_idx, ips |-> SetOf(batch),
     ok |-> BatchSucceeds(resp), query_failed |-> GeoQueryFails(resp),
     stored |-> StoredByAnswer(resp), ms |-> 0]
GeoSleepEvent(ms) ==
    [op |-> "sleep", batch_idx |-> 0, ips |-> {}, ok |-> TRUE,
     query_failed |-> FALSE, stored |-> <<>>, ms |-> ms]

\* a pass that sleeps after every answered batch, the last one included
BatchEventsAlwaysSleeps(batch_idx, batches, resp) ==
    IF BatchSucceeds(resp)
    THEN <<PostEvent(batch_idx, batches[batch_idx + 1], resp),
           GeoSleepEvent(RATE_LIMIT_DELAY_MS)>>
    ELSE <<PostEvent(batch_idx, batches[batch_idx + 1], resp)>>

\* the events of one pass: the POST, and the sleep of lines 162-163
BatchEvents(batch_idx, batches, resp) ==
    IF BatchSucceeds(resp) /\ batch_idx < Len(batches) - 1
    THEN <<PostEvent(batch_idx, batches[batch_idx + 1], resp),
           GeoSleepEvent(RATE_LIMIT_DELAY_MS)>>
    ELSE <<PostEvent(batch_idx, batches[batch_idx + 1], resp)>>

InitGeo ==
    /\ geo_pc = "idle"
    /\ geo_ips = <<>>
    /\ geo_unique_ips = <<>>
    /\ geo_batches = <<>>
    /\ geo_batch_idx = 0
    /\ geo_results = <<>>
    /\ geo_log = <<>>

\* locate_batch(ips) up to the loop (lines 109-123)
LocateBatchCall ==
    /\ geo_pc = "idle"
    /\ \E ips \in GeoInputs :
        \E unique_ips \in UniqueOrders(ips) :
            /\ geo_ips' = ips
            /\ geo_unique_ips' = unique_ips
            /\ geo_batches' = SplitBatches(unique_ips)
    /\ geo_batch_idx' = 0
    /\ geo_results' = <<>>
    /\ geo_log' = <<>>
    /\ geo_pc' = "loop"
    /\ UNCHANGED <<cleanVars, enumVars, dnsVars, mapVars, pipeVars, singleVars>>

\* one pass of the loop over the batches (lines 125-171)
LocateBatchPass ==
    /\ geo_pc = "loop"
    /\ geo_batch_idx < Len(geo_batches)
    /\ \E resp \in GeoResponses(geo_batches[geo_batch_idx + 1], geo_unique_ips) :
          /\ geo_results' = BatchResults(geo_results, geo_batches[geo_batch_idx + 1], resp)
          /\ geo_log' = geo_log \o BatchEvents(geo_batch_idx, geo_batches, resp)
    /\ geo_batch_idx' = geo_batch_idx + 1
    /\ UNCHANGED <<geo_pc, geo_ips, geo_unique_ips, geo_batches>>
    /\ UNCHANGED <<cleanVars, enumVars, dnsVars, mapVars, pipeVars, singleVars>>

\* line 177 builds set(r.country ...): TypeError on an unhashable country
StatisticsRaise(results) ==
    \E a \in DOMAIN results : results[a].country = UnhashableValue

\* after the loop: the statistics and the return (lines 173-181)
LocateBatchReturn ==
    /\ geo_pc = "loop"
    /\ geo_batch_idx = Len(geo_batches)
    /\ geo_pc' = IF StatisticsRaise(geo_results) THEN "raised" ELSE "done"
    /\ UNCHANGED <<geo_ips, geo_unique_ips, geo_batches, geo_batch_idx,
                   geo_results, geo_log>>
    /\ UNCHANGED <<cleanVars, enumVars, dnsVars, mapVars, pipeVars, singleVars>>

NextGeo ==
    \/ LocateBatchCall
    \/ LocateBatchPass
    \/ LocateBatchReturn

---------------------------------------------------------------------------
(* GeoIntelligence.locate_single *)

\* the addresses locate_single is called with: 1..SingleMaxIps
SingleMaxIps == 4

\* another address than ip, for an answer that is about a different address
OtherAddr(ip) == ip + 1

\* what the GET of SINGLE_API for ip may produce
SingleResponses(ip) ==
    {RespTimeout, RespConnErr,
     RespHttp(429, BodyBlank), RespHttp(500, BodyNotJson),
     \* an error status with a body that reports success
     RespHttp(404, BodyJson(GeoItem(ip, "success", "US"))),
     RespHttp(200, BodyBlank), RespHttp(200, BodyNotJson),
     \* JSON that is no object: null, a number, a list
     RespHttp(200, BodyJson(JsonNull)),
     RespHttp(200, BodyJson(JsonScalar)),
     RespHttp(200, BodyJson(JsonList(<<GeoItem(ip, "success", "US")>>))),
     \* success, every field present
     RespHttp(200, BodyJson(GeoItem(ip, "success", "US"))),
     \* success, 'country' and 'city' absent
     RespHttp(200, BodyJson([GeoItem(ip, "success", "None") EXCEPT !.city = "None"])),
     \* success, 'country' a JSON array
     RespHttp(200, BodyJson(GeoItem(ip, "success", UnhashableValue))),
     \* success, the answer names another address as its 'query'
     RespHttp(200, BodyJson(GeoItem(OtherAddr(ip), "success", "US"))),
     \* failure reported, with and without the other fields
     RespHttp(200, BodyJson(GeoItem(ip, "fail", "US"))),
     RespHttp(200, BodyJson(GeoItem(ip, "fail", "None"))),
     \* no 'status' key
     RespHttp(200, BodyJson(GeoItem(ip, "None", "US")))}

\* what a call leaves to its caller: a returned GeoData or an exception
SingleReturns(result) == [raised |-> FALSE, exc |-> "None", result |-> result]
SingleRaises(exc, ip) == [raised |-> TRUE, exc |-> exc, result |-> GeoDataFailed(ip)]

\* a handler that catches the exceptions of the request only, so that the
\* AttributeError of data.get on a value that is no object leaves the call
LocateSingleRequestErrorsOnly(ip, resp) ==
    IF GeoQueryFails(resp) THEN SingleReturns(GeoDataFailed(ip))
    ELSE IF resp.body.data.t # "dict" THEN SingleRaises("AttributeError", ip)
    ELSE IF resp.body.data.status = "success"
         THEN SingleReturns(GeoDataFromItem(resp.body.data.query, resp.body.data))
         ELSE SingleReturns(GeoDataFailed(ip))

\* locate_single(ip), given what the GET produced (lines 67-94)
locate_single(ip, resp) ==
    IF GeoQueryFails(resp)
    THEN \* get, raise_for_status or json() raised (lines 68-73, 92-94)
         SingleReturns(GeoDataFailed(ip))
    ELSE IF resp.body.data.t # "dict"
    THEN \* data.get raises AttributeError (line 75), caught on line 92
         SingleReturns(GeoDataFailed(ip))
    ELSE IF resp.body.data.status = "success"
    THEN SingleReturns(GeoDataFromItem(ip, resp.body.data))
    ELSE SingleReturns(GeoDataFailed(ip))

NoSingleResponse == RespHttp(0, [t |-> "none"])

InitSingle ==
    /\ ls_pc = "idle"
    /\ ls_ip = EmptyAddr
    /\ ls_resp = NoSingleResponse
    /\ ls_result = SingleReturns(GeoDataFailed(EmptyAddr))

\* locate_single(ip) is called
LocateSingleCall ==
    /\ ls_pc = "idle"
    /\ \E ip \in 1..SingleMaxIps : ls_ip' = ip
    /\ ls_pc' = "get"
    /\ UNCHANGED <<ls_resp, ls_result>>
    /\ UNCHANGED <<cleanVars, enumVars, geoVars, dnsVars, mapVars, pipeVars>>

\* the GET is answered (lines 68-71)
LocateSingleGet ==
    /\ ls_pc = "get"
    /\ \E resp \in SingleResponses(ls_ip) : ls_resp' = resp
    /\ ls_pc' = "answered"
    /\ UNCHANGED <<ls_ip, ls_result>>
    /\ UNCHANGED <<cleanVars, enumVars, geoVars, dnsVars, mapVars, pipeVars>>

\* the answer is read and the call ends (lines 72-94)
LocateSingleReturn ==
    /\ ls_pc = "answered"
    /\ ls_result' = locate_single(ls_ip, ls_resp)
    /\ ls_pc' = IF ls_result'.raised THEN "raised" ELSE "returned"
    /\ UNCHANGED <<ls_ip, ls_resp>>
    /\ UNCHANGED <<cleanVars, enumVars, geoVars, dnsVars, mapVars, pipeVars>>

NextSingle ==
    \/ LocateSingleCall
    \/ LocateSingleGet
    \/ LocateSingleReturn

---------------------------------------------------------------------------
(* DNSResolver.resolve_single and resolve_bulk *)

\* what self.resolver.resolve(subdomain, 'A') may do: answer with an address,
\* raise NXDOMAIN, NoAnswer or Timeout, raise another exception e with a
\* message, or raise an exception e whose str(e) raises in its turn
ALookups ==
    {[kind |-> "answer", ip |-> "192.0.2.1", msg |-> "None"],
     [kind |-> "NXDOMAIN", ip |-> "None", msg |-> "None"],
     [kind |-> "NoAnswer", ip |-> "None", msg |-> "None"],
     [kind |-> "Timeout", ip |-> "None", msg |-> "None"],
     [kind |-> "exception", ip |-> "None", msg |-> "no nameservers"],
     [kind |-> "unprintable", ip |-> "None", msg |-> "__str__ returned non-string"]}

\* what self.resolver.resolve(subdomain, 'CNAME') may do
CnameLookups ==
    {[kind |-> "answer", cname |-> "cdn.example.net."],
     [kind |-> "exception", cname |-> "None"]}

DNSResult(subdomain, ip, is_alive, cname, error) ==
    [subdomain |-> subdomain, ip |-> ip, is_alive |-> is_alive,
     cname |-> cname, error |-> error]

\* resolve_single with the three named except clauses shadowed by the
\* general one: every failure is recorded with its message
ResolveSingleGeneralClauseFirst(subdomain, a, c) ==
    CASE a.kind = "answer" ->
            [raised |-> FALSE, msg |-> "None",
             result |-> DNSResult(subdomain, a.ip, TRUE,
                                  IF c.kind = "answer" THEN c.cname ELSE "None",
                                  "None")]
      [] a.kind \in {"NXDOMAIN", "NoAnswer", "Timeout", "exception"} ->
            [raised |-> FALSE, msg |-> "None",
             result |-> DNSResult(subdomain, "None", FALSE, "None", a.msg)]
      [] a.kind = "unprintable" ->
            [raised |-> TRUE, msg |-> a.msg,
             result |-> DNSResult(subdomain, "None", FALSE, "None", "None")]

\* resolve_single without the inner try: a failed CNAME lookup is handled
\* by the outer except clauses
ResolveSingleCnameFailureOuter(subdomain, a, c) ==
    CASE a.kind = "answer" /\ c.kind = "answer" ->
            [raised |-> FALSE, msg |-> "None",
             result |-> DNSResult(subdomain, a.ip, TRUE, c.cname, "None")]
      [] a.kind = "answer" /\ c.kind # "answer" ->
            [raised |-> FALSE, msg |-> "None",
             result |-> DNSResult(subdomain, "None", FALSE, "None", "NoAnswer")]
      [] a.kind \in {"NXDOMAIN", "NoAnswer", "Timeout"} ->
            [raised |-> FALSE, msg |-> "None",
             result |-> DNSResult(subdomain, "None", FALSE, "None", a.kind)]
      [] a.kind = "exception" ->
            [raised |-> FALSE, msg |-> "None",
             result |-> DNSResult(subdomain, "None", FALSE, "None", a.msg)]
      [] a.kind = "unprintable" ->
            [raised |-> TRUE, msg |-> a.msg,
             result |-> DNSResult(subdomain, "None", FALSE, "None", "None")]

\* resolve_single counting a name without A record as alive: the NoAnswer
\* clause returns an alive record that has no address
ResolveSingleAliveOnNoAnswer(subdomain, a, c) ==
    CASE a.kind = "answer" ->
            [raised |-> FALSE, msg |-> "None",
             result |-> DNSResult(subdomain, a.ip, TRUE,
                                  IF c.kind = "answer" THEN c.cname ELSE "None",
                                  "None")]
      [] a.kind = "NoAnswer" ->
            [raised |-> FALSE, msg |-> "None",
             result |-> DNSResult(subdomain, "None", TRUE, "None", a.kind)]
      [] a.kind \in {"NXDOMAIN", "Timeout"} ->
            [raised |-> FALSE, msg |-> "None",
             result |-> DNSResult(subdomain, "None", FALSE, "None", a.kind)]
      [] a.kind = "exception" ->
            [raised |-> FALSE, msg |-> "None",
             result |-> DNSResult(subdomain, "None", FALSE, "None", a.msg)]
      [] a.kind = "unprintable" ->
            [raised |-> TRUE, msg |-> a.msg,
             result |-> DNSResult(subdomain, "None", FALSE, "None", "None")]

\* resolve_single(subdomain) (lines 72-99): what the task's future holds, a
\* returned DNSResult or the exception that left the function
resolve_single(subdomain, a, c) ==
    CASE a.kind = "answer" ->
            [raised |-> FALSE, msg |-> "None",
             result |-> DNSResult(subdomain, a.ip, TRUE,
                                  IF c.kind = "answer" THEN c.cname ELSE "None",
                                  "None")]
      [] a.kind \in {"NXDOMAIN", "NoAnswer", "Timeout"} ->
            [raised |-> FALSE, msg |-> "None",
             result |-> DNSResult(subdomain, "None", FALSE, "None", a.kind)]
      [] a.kind = "exception" ->
            [raised |-> FALSE, msg |-> "None",
             result |-> DNSResult(subdomain, "None", FALSE, "None", a.msg)]
      [] a.kind = "unprintable" ->
            \* str(e) raises inside the last except clause (line 99)
            [raised |-> TRUE, msg |-> a.msg,
             result |-> DNSResult(subdomain, "None", FALSE, "None", "None")]

\* the body of the collecting loop with the except clause storing nothing
CollectResultDropsRaised(results, subdomain, outcome) ==
    IF outcome.raised THEN results
    ELSE [s \in DOMAIN results \cup {subdomain} |->
             IF s = subdomain THEN outcome.result ELSE results[s]]

\* the collecting loop storing the record of the future under every key
CollectResultOverwritesAll(results, subdomain, outcome) ==
    [s \in DOMAIN results \cup {subdomain} |->
        IF outcome.raised
        THEN DNSResult(subdomain, "None", FALSE, "None", outcome.msg)
        ELSE outcome.result]

\* the except clause of the collecting loop recording no message
CollectResultLosesMessage(results, subdomain, outcome) ==
    [s \in DOMAIN results \cup {subdomain} |->
        IF s # subdomain THEN results[s]
        ELSE IF outcome.raised
             THEN DNSResult(subdomain, "None", FALSE, "None", "None")
             ELSE outcome.result]

\* the body of the collecting loop (lines 134-144)
CollectResult(results, subdomain, outcome) ==
    [s \in DOMAIN results \cup {subdomain} |->
        IF s # subdomain THEN results[s]
        ELSE IF outcome.raised
             THEN DNSResult(subdomain, "None", FALSE, "None", outcome.msg)
             ELSE outcome.result]

\* the input lists: n distinct names, or n names the last of which repeats
\* the first
DistinctNames(n) == [i \in 1..n |-> Sub(i)]
RepeatedName(n)  == [i \in 1..n |-> IF i = n THEN Sub(1) ELSE Sub(i)]
DnsInputs ==
    {DistinctNames(n) : n \in 0..DnsMaxNames}
        \cup {RepeatedName(n) : n \in 2..DnsMaxNames}

NoOutcome ==
    [raised |-> FALSE, msg |-> "None",
     result |-> DNSResult(<<>>, "None", FALSE, "None", "None")]

\* a lookup that was not made
NoALookup     == [kind |-> "none", ip |-> "None", msg |-> "None"]
NoCnameLookup == [kind |-> "none", cname |-> "None"]

\* the futures whose task a worker thread has started
Started == {i \in DOMAIN dns_futures : dns_futures[i].state # "queued"}

\* no KeyboardInterrupt was raised in the calling thread
NoInterrupt == [raised |-> FALSE, started |-> 0]

\* the futures a worker thread is running
Running == {i \in DOMAIN dns_futures : dns_futures[i].state = "running"}

InitDns ==
    /\ dns_pc = "idle"
    /\ dns_subdomains = <<>>
    /\ dns_max_workers = 0
    /\ dns_submitted = 0
    /\ dns_futures = <<>>
    /\ dns_results = <<>>
    /\ dns_interrupt = NoInterrupt

\* resolve_bulk(subdomains) up to the executor (lines 112-125)
ResolveBulkCall ==
    /\ dns_pc = "idle"
    /\ \E subdomains \in DnsInputs, max_workers \in 1..DnsMaxWorkers :
          /\ dns_subdomains' = subdomains
          /\ dns_max_workers' = max_workers
    /\ dns_submitted' = 0
    /\ dns_futures' = <<>>
    /\ dns_results' = <<>>
    /\ dns_interrupt' = NoInterrupt
    /\ dns_pc' = "submit"
    /\ UNCHANGED <<cleanVars, enumVars, geoVars, mapVars, pipeVars, singleVars>>

\* executor.submit(self.resolve_single, sub) for the next name (lines 127-130)
Submit ==
    /\ dns_pc = "submit"
    /\ dns_submitted < Len(dns_subdomains)
    /\ dns_futures' = Append(dns_futures,
                             [sub |-> dns_subdomains[dns_submitted + 1],
                              state |-> "queued", a |-> NoALookup,
                              c |-> NoCnameLookup, lookups |-> <<>>,
                              outcome |-> NoOutcome])
    /\ dns_submitted' = dns_submitted + 1
    /\ UNCHANGED <<dns_pc, dns_subdomains, dns_max_workers, dns_results,
                   dns_interrupt>>
    /\ UNCHANGED <<cleanVars, enumVars, geoVars, mapVars, pipeVars, singleVars>>

\* every name is submitted: the collecting loop starts (line 133)
SubmitDone ==
    /\ dns_pc = "submit"
    /\ dns_submitted = Len(dns_subdomains)
    /\ dns_pc' = "collect"
    /\ UNCHANGED <<dns_subdomains, dns_max_workers, dns_submitted, dns_futures,
                   dns_results, dns_interrupt>>
    /\ UNCHANGED <<cleanVars, enumVars, geoVars, mapVars, pipeVars, singleVars>>

\* a pool that starts a thread for every task
PoolUnbounded(running, max_workers) == TRUE

\* ThreadPoolExecutor(max_workers=self.max_workers) (line 125): a task is
\* taken only by one of the max_workers threads, when it is idle
PoolHasIdleWorker(running, max_workers) == Cardinality(running) < max_workers

\* resolve_single asking again after a timeout
LookupsIssuedRetriesTimeout(a) ==
    IF a.kind = "answer" THEN <<"A", "CNAME">>
    ELSE IF a.kind = "Timeout" THEN <<"A", "A">>
    ELSE <<"A">>

\* the calls of self.resolver.resolve in one resolve_single (lines 74-80):
\* the A lookup, and the CNAME lookup once the A lookup has answered
LookupsIssued(a) == IF a.kind = "answer" THEN <<"A", "CNAME">> ELSE <<"A">>

\* what the CNAME lookup may do after the A lookup a; it is not made when
\* the A lookup raised
CnameLookupsAfter(a) == IF a.kind = "answer" THEN CnameLookups ELSE {NoCnameLookup}

\* a worker thread of the pool takes the oldest queued task; the pool has at
\* most max_workers threads
WorkerTake ==
    /\ PoolHasIdleWorker(Running, dns_max_workers)
    /\ \E i \in DOMAIN dns_futures :
          /\ dns_futures[i].state = "queued"
          /\ \A j \in 1..(i - 1) : dns_futures[j].state # "queued"
          /\ dns_futures' = [dns_futures EXCEPT ![i].state = "running"]
    /\ UNCHANGED <<dns_pc, dns_subdomains, dns_max_workers, dns_submitted, dns_results,
                   dns_interrupt>>
    /\ UNCHANGED <<cleanVars, enumVars, geoVars, mapVars, pipeVars, singleVars>>

\* a worker thread ends resolve_single for its task: the address lookup
\* and, after an answer, the CNAME lookup
WorkerFinish ==
    /\ \E i \in Running, a \in ALookups :
          \E c \in CnameLookupsAfter(a) :
              dns_futures' = [dns_futures EXCEPT
                  ![i].state = "finished",
                  ![i].a = a,
                  ![i].c = c,
                  ![i].lookups = LookupsIssued(a),
                  ![i].outcome = resolve_single(dns_futures[i].sub, a, c)]
    /\ UNCHANGED <<dns_pc, dns_subdomains, dns_max_workers, dns_submitted, dns_results,
                   dns_interrupt>>
    /\ UNCHANGED <<cleanVars, enumVars, geoVars, mapVars, pipeVars, singleVars>>

\* one pass of the collecting loop: as_completed yields a finished future
\* not yet yielded (lines 133-145)
Collect ==
    /\ dns_pc = "collect"
    /\ \E i \in DOMAIN dns_futures :
          /\ dns_futures[i].state = "finished"
          /\ dns_results' = CollectResult(dns_results, dns_futures[i].sub,
                                          dns_futures[i].outcome)
          /\ dns_futures' = [dns_futures EXCEPT ![i].state = "yielded"]
    /\ UNCHANGED <<dns_pc, dns_subdomains, dns_max_workers, dns_submitted,
                   dns_interrupt>>
    /\ UNCHANGED <<cleanVars, enumVars, geoVars, mapVars, pipeVars, singleVars>>

\* every future was yielded: the executor is shut down and results returned
\* (lines 146-155)
ResolveBulkReturn ==
    /\ dns_pc = "collect"
    /\ \A i \in DOMAIN dns_futures : dns_futures[i].state = "yielded"
    /\ dns_pc' = "done"
    /\ UNCHANGED <<dns_subdomains, dns_max_workers, dns_submitted, dns_futures,
                   dns_results, dns_interrupt>>
    /\ UNCHANGED <<cleanVars, enumVars, geoVars, mapVars, pipeVars, singleVars>>

\* KeyboardInterrupt is raised in the calling thread inside the with block
\* (lines 125-145): the block is left and ThreadPoolExecutor.__exit__ starts
\* shutdown(wait=True)
KeyboardInterrupt ==
    /\ dns_pc \in {"submit", "collect"}
    /\ dns_interrupt' = [raised |-> TRUE, started |-> Cardinality(Started)]
    /\ dns_pc' = "shutdown"
    /\ UNCHANGED <<dns_subdomains, dns_max_workers, dns_submitted, dns_futures,
                   dns_results>>
    /\ UNCHANGED <<cleanVars, enumVars, geoVars, mapVars, pipeVars, singleVars>>

\* shutdown(wait=True) returns once the workers have run every submitted
\* task; the KeyboardInterrupt then leaves resolve_bulk and run_reconnaissance
\* and main exits with status 130 (overseer.py lines 336-338): nothing is
\* returned
InterruptPropagates ==
    /\ dns_pc = "shutdown"
    /\ \A i \in DOMAIN dns_futures : dns_futures[i].state \in {"finished", "yielded"}
    /\ dns_pc' = "interrupted"
    /\ UNCHANGED <<dns_subdomains, dns_max_workers, dns_submitted, dns_futures,
                   dns_results, dns_interrupt>>
    /\ UNCHANGED <<cleanVars, enumVars, geoVars, mapVars, pipeVars, singleVars>>

NextDns ==
    \/ ResolveBulkCall
    \/ KeyboardInterrupt
    \/ InterruptPropagates
    \/ Submit
    \/ SubmitDone
    \/ WorkerTake
    \/ WorkerFinish
    \/ Collect
    \/ ResolveBulkReturn

---------------------------------------------------------------------------
(* TacticalMapGenerator.generate and its classifier get_marker_color *)

\* x or default, for an Optional[str]
OrElse(x, default) ==
    IF x = NoneVal \/ x = Some(<<>>) THEN default ELSE CHOOSE v \in x : TRUE

\* the lists of lines 114-133
AwsFragments    == {<<"a","m","a","z","o","n">>, <<"a","w","s">>, <<"e","c","2">>, <<"a","m","a","z","o","n","a","w","s">>}
GoogleFragments == {<<"g","o","o","g","l","e">>, <<"g","c","p">>, <<"c","l","o","u","d"," ","p","l","a","t","f","o","r","m">>}
AzureFragments  == {<<"m","i","c","r","o","s","o","f","t">>, <<"a","z","u","r","e">>}
CdnList ==
    {<<"c","l","o","u","d","f","l","a","r","e">>, <<"a","k","a","m","a","i">>, <<"f","a","s","t","l","y">>, <<"c","d","n">>, <<"e","d","g","e","c","a","s","t">>, <<"i","n","c","a","p","s","u","l","a">>}
VpsList ==
    {<<"d","i","g","i","t","a","l","o","c","e","a","n">>, <<"l","i","n","o","d","e">>, <<"v","u","l","t","r">>, <<"o","v","h">>, <<"h","e","t","z","n","e","r">>, <<"c","o","n","t","a","b","o">>}
BrIspList ==
    {<<"v","i","v","o">>, <<"c","l","a","r","o">>, <<"t","i","m">>, <<"o","i"," ">>, <<"n","e","t"," ","v","i","r","t","u","a">>, <<"g","v","t">>}
UsIspList ==
    {<<"c","o","m","c","a","s","t">>, <<"v","e","r","i","z","o","n">>, <<"a","t","&","t">>, <<"s","p","e","c","t","r","u","m">>, <<"c","o","x">>}

\* any(f in s for f in fragments)
AnyIn(fragments, s) == \E f \in fragments : Contains(s, f)

\* get_marker_color with hidden state, the number of markers drawn so far:
\* every second call answers 'red'
GetMarkerColorCountingCalls(org, isp) ==
    IF Len(mg_markers) % 2 = 1 THEN "red"
    ELSE IF AnyIn(AwsFragments \cup GoogleFragments \cup AzureFragments,
                  StrLower(OrElse(org, <<>>)) \o StrLower(OrElse(isp, <<>>)))
    THEN "green" ELSE "red"

\* get_marker_color with the CDN test ahead of the cloud tests
GetMarkerColorCdnFirst(org, isp) ==
    LET org_lower == StrLower(OrElse(org, <<>>)) \o StrLower(OrElse(isp, <<>>))
    IN  IF AnyIn(CdnList, org_lower) THEN "orange"
        ELSE IF AnyIn(AwsFragments \cup GoogleFragments \cup AzureFragments, org_lower)
        THEN "green"
        ELSE IF AnyIn(VpsList, org_lower) THEN "blue"
        ELSE "red"

\* get_marker_color(org, isp) (lines 103-138)
get_marker_color(org, isp) ==
    LET org_lower == StrLower(OrElse(org, <<>>)) \o StrLower(OrElse(isp, <<>>))
    IN  IF AnyIn(AwsFragments, org_lower) THEN "green"
        ELSE IF AnyIn(GoogleFragments, org_lower) THEN "green"
        ELSE IF AnyIn(AzureFragments, org_lower) THEN "green"
        ELSE IF AnyIn(CdnList, org_lower) THEN "orange"
        ELSE IF AnyIn(VpsList, org_lower) THEN "blue"
        ELSE IF AnyIn(BrIspList, org_lower) THEN "red"
        ELSE IF AnyIn(UsIspList, org_lower) THEN "red"
        ELSE "red"

MapPoint(subdomain, ip, lat, lon, country, city, isp, org) ==
    [subdomain |-> subdomain, ip |-> ip, lat |-> lat, lon |-> lon,
     country |-> country, city |-> city, isp |-> isp, org |-> org]

\* the folium.Marker of one point (lines 142-165)
Marker(point) ==
    [subdomain |-> point.subdomain, org |-> point.org, isp |-> point.isp,
     color |-> get_marker_color(point.org, point.isp)]

\* organization and ISP texts of the modelled points
AmazonWebServices == <<"A","m","a","z","o","n"," ","W","e","b"," ","S","e","r","v","i","c","e","s">>
ComcastInc        == <<"C","o","m","c","a","s","t"," ","I","n","c">>
CloudflareInc     == <<"C","l","o","u","d","f","l","a","r","e",","," ","I","n","c",".">>
AcmeHostingLLC    == <<"A","c","m","e"," ","H","o","s","t","i","n","g"," ","L","L","C">>
NamedOrgs ==
    {NoneVal, Some(<<>>), Some(AmazonWebServices), Some(CloudflareInc),
     Some(AcmeHostingLLC), Some(ComcastInc),
     Some(<<"G","o","o","g","l","e"," ","L","L","C">>),
     Some(<<"M","i","c","r","o","s","o","f","t"," ","A","z","u","r","e">>),
     Some(<<"A","m","a","z","o","n"," ","C","l","o","u","d","F","r","o","n","t"," ","C","D","N">>),
     Some(<<"A","k","a","m","a","i"," ","o","n"," ","L","i","n","o","d","e">>),
     Some(<<"O","V","H"," ","S","A","S">>),
     Some(<<"H","e","t","z","n","e","r"," ","O","n","l","i","n","e"," ","G","m","b","H">>),
     Some(<<"V","i","v","o">>),
     Some(<<"U","n","k","n","o","w","n">>)}
NamedIsps ==
    {NoneVal, Some(<<>>), Some(ComcastInc),
     Some(<<"D","i","g","i","t","a","l","O","c","e","a","n",","," ","L","L","C">>),
     Some(<<"F","a","s","t","l","y">>),
     Some(<<"E","C","2">>),
     Some(<<"U","n","k","n","o","w","n">>)}
\* short texts, among them the three-letter fragments and their pieces
ShortAlphabet == {"a", "w", "s", "c", "d", "n", "A"}
ShortOrgs == {Some(t) : t \in SeqsUpTo(ShortAlphabet, MaxOrgLen)}
ShortIsps == {Some(<<>>), Some(<<"s">>), Some(<<"w","s">>), Some(<<"D","N">>)}
OrgIspPairs == (NamedOrgs \X NamedIsps) \cup (ShortOrgs \X ShortIsps)

\* pairs for the calls with several points
FewPairs ==
    {<<Some(AmazonWebServices), Some(ComcastInc)>>,
     <<Some(CloudflareInc), Some(<<>>)>>,
     <<Some(AcmeHostingLLC), Some(<<>>)>>,
     <<Some(<<"O","V","H">>), NoneVal>>}

PointOf(pair) ==
    MapPoint(<<"a",".","t",".","i","o">>, "192.0.2.1", Some(1), Some(2),
             "US", "City", pair[2], pair[1])

\* the lists of points: none, one point of every pair, several points
MapInputs ==
    {<<>>} \cup {<<PointOf(pair)>> : pair \in OrgIspPairs}
        \cup UNION {[1..n -> {PointOf(pair) : pair \in FewPairs}] : n \in 2..MaxPoints}

InitMap ==
    /\ mg_pc = "idle"
    /\ mg_points = <<>>
    /\ mg_markers = <<>>

\* generate(points, ...) up to the loop; without points it returns ""
\* (lines 65-100)
GenerateCall ==
    /\ mg_pc = "idle"
    /\ \E points \in MapInputs :
          /\ mg_points' = points
          /\ mg_pc' = IF points = <<>> THEN "skipped" ELSE "markers"
    /\ mg_markers' = <<>>
    /\ UNCHANGED <<cleanVars, enumVars, geoVars, dnsVars, pipeVars, singleVars>>

\* one pass of the loop over the points (lines 141-165)
AddMarker ==
    /\ mg_pc = "markers"
    /\ Len(mg_markers) < Len(mg_points)
    /\ mg_markers' = Append(mg_markers, Marker(mg_points[Len(mg_markers) + 1]))
    /\ UNCHANGED <<mg_pc, mg_points>>
    /\ UNCHANGED <<cleanVars, enumVars, geoVars, dnsVars, pipeVars, singleVars>>

\* legend, title and save (lines 167-202)
GenerateReturn ==
    /\ mg_pc = "markers"
    /\ Len(mg_markers) = Len(mg_points)
    /\ mg_pc' = "saved"
    /\ UNCHANGED <<mg_points, mg_markers>>
    /\ UNCHANGED <<cleanVars, enumVars, geoVars, dnsVars, pipeVars, singleVars>>

NextMap ==
    \/ GenerateCall
    \/ AddMarker
    \/ GenerateReturn

---------------------------------------------------------------------------
(* run_reconnaissance: the pipeline of the four stages (overseer.py) *)

\* the characters of a name in code point order, for sorted()
AsciiOrder ==
    <<"-", ".", "0", "1", "2", "3", "4", "5", "6", "7", "8", "9">> \o LowerChars
CodeRank(c) == CHOOSE i \in DOMAIN AsciiOrder : AsciiOrder[i] = c

\* s < t for two str
RECURSIVE StrLess(_, _)
StrLess(s, t) ==
    IF t = <<>> THEN FALSE
    ELSE IF s = <<>> THEN TRUE
    ELSE IF s[1] # t[1] THEN CodeRank(s[1]) < CodeRank(t[1])
    ELSE StrLess(Tail(s), Tail(t))

\* sorted(list(S)) for a set of str
Sorted(S) ==
    [i \in 1..Cardinality(S) |->
        CHOOSE s \in S : Cardinality({t \in S : StrLess(t, s)}) = i - 1]

Reverse(seq) == [i \in 1..Len(seq) |-> seq[Len(seq) + 1 - i]]

\* args.target as typed on the command line
RawTargets == {EnumDomain, <<"T", ".", "I", "O", " ">>}

\* what ct_enum.enumerate(target) may return
PipeEnumResults == SUBSET {Sub(i) : i \in 1..PipeMaxSubs}

\* what the lookups of one name may do in the pipeline's runs
PipeLookups ==
    {<<[kind |-> "answer", ip |-> "192.0.2.1", msg |-> "None"],
       [kind |-> "answer", cname |-> "cdn.example.net."]>>,
     <<[kind |-> "answer", ip |-> "198.51.100.7", msg |-> "None"],
       [kind |-> "exception", cname |-> "None"]>>,
     <<[kind |-> "NXDOMAIN", ip |-> "None", msg |-> "None"], NoCnameLookup>>,
     <<[kind |-> "unprintable", ip |-> "None", msg |-> "__str__ returned non-string"],
       NoCnameLookup>>}

\* the record resolve_bulk stores for one name
BulkRecord(subdomain, lookup) ==
    CollectResult(<<>>, subdomain,
                  resolve_single(subdomain, lookup[1], lookup[2]))[subdomain]

\* what dns_resolver.resolve_bulk(subdomain_list) may return: one record per
\* name
PipeDnsResults(subdomain_list) ==
    {[s \in SetOf(subdomain_list) |-> BulkRecord(s, choice[s])] :
        choice \in [SetOf(subdomain_list) -> PipeLookups]}

\* the alive filter keeping every record
AliveHostsKeepsAll(dns_map, order) == order

\* lines 172-175: the names whose record is alive and has an address, in the
\* order of the dict
AliveHosts(dns_map, order) ==
    SelectSeq(order,
              LAMBDA sub : dns_map[sub].is_alive /\ dns_map[sub].ip # "None")

\* GeoData(ip=ip, success=False) (line 199), Optional fields as sets
GeoDataDefault(ip) ==
    [ip |-> ip, country |-> NoneVal, country_code |-> NoneVal, region |-> NoneVal,
     city |-> NoneVal, lat |-> NoneVal, lon |-> NoneVal, isp |-> NoneVal,
     org |-> NoneVal, as_number |-> NoneVal, success |-> FALSE]

\* an item of the geolocation provider's answer
PipeGeoItem(lat, lon, isp, org) ==
    [country |-> Some(<<"U","S">>), countryCode |-> Some(<<"U","S">>),
     regionName |-> Some(<<"R">>), city |-> NoneVal, lat |-> lat, lon |-> lon,
     isp |-> isp, org |-> org, as |-> Some(<<"A","S","1">>)]

\* what locate_batch may hold for one address: a located record, a record
\* without coordinates, a failed record
PipeGeoRecords(ip) ==
    {GeoDataFromItem(ip, PipeGeoItem(Some(37), Some(-97), Some(ComcastInc),
                                     Some(AmazonWebServices))),
     GeoDataFromItem(ip, PipeGeoItem(NoneVal, NoneVal, Some(<<>>),
                                     Some(CloudflareInc))),
     GeoDataDefault(ip)}

\* what geo_intel.locate_batch(unique_ips) may return: records for some of
\* the addresses
PipeGeoResults(ips) ==
    UNION {{[a \in keys |-> choice[a]] :
               choice \in {c \in [keys -> UNION {PipeGeoRecords(a) : a \in keys}] :
                              \A a \in keys : c[a].ip = a}} :
           keys \in SUBSET ips}

\* geo_results.get(ip, GeoData(ip=ip, success=False)) (line 199)
GeoGet(geo_map, ip) ==
    IF ip \in DOMAIN geo_map THEN geo_map[ip] ELSE GeoDataDefault(ip)

\* the dict appended for one alive host (lines 198-215)
AggregatedRecord(subdomain, dns_result, geo) ==
    [subdomain |-> subdomain, ip |-> dns_result.ip, cname |-> dns_result.cname,
     country |-> geo.country, country_code |-> geo.country_code,
     region |-> geo.region, city |-> geo.city, lat |-> geo.lat, lon |-> geo.lon,
     isp |-> geo.isp, org |-> geo.org, as_number |-> geo.as_number,
     geo_success |-> geo.success]

\* the loop of lines 196-215
Aggregate(alive_hosts, dns_map, geo_map) ==
    [i \in DOMAIN alive_hosts |->
        AggregatedRecord(alive_hosts[i], dns_map[alive_hosts[i]],
                         GeoGet(geo_map, dns_map[alive_hosts[i]].ip))]

UnknownText == <<"U","n","k","n","o","w","n">>

\* lines 230-242: a MapPoint for every row with coordinates
MapPoints(records) ==
    LET rows == SelectSeq(records, LAMBDA row : row.lat # NoneVal /\ row.lon # NoneVal)
    IN  [i \in DOMAIN rows |->
            MapPoint(rows[i].subdomain, rows[i].ip, rows[i].lat, rows[i].lon,
                     Some(OrElse(rows[i].country, UnknownText)),
                     Some(OrElse(rows[i].city, UnknownText)),
                     Some(OrElse(rows[i].isp, UnknownText)),
                     Some(OrElse(rows[i].org, UnknownText)))]

\* the markers map_gen.generate draws for the points (lines 244-246)
GenerateMarkers(points) == [i \in DOMAIN points |-> Marker(points[i])]

\* run_reconnaissance resolving the enumerated names only
WithoutBaseDomain(subdomains, target) == subdomains

\* subdomains.add(target) (line 157)
WithBaseDomain(subdomains, target) == subdomains \cup {target}

\* the run going on to phase 3 whatever the alive filter kept
AfterResolveGoesOn(alive_hosts) == "phase3"

\* lines 177-179: without alive host the run ends with None
AfterResolve(alive_hosts) == IF alive_hosts = <<>> THEN "none" ELSE "phase3"

InitPipe ==
    /\ pp_pc = "idle"
    /\ pp_target = <<>>
    /\ pp_no_map = FALSE
    /\ pp_subdomains = {}
    /\ pp_subdomain_list = <<>>
    /\ pp_dns_results = <<>>
    /\ pp_alive_hosts = <<>>
    /\ pp_geo_results = <<>>
    /\ pp_records = <<>>
    /\ pp_markers = <<>>
    /\ pp_log = <<>>

\* run_reconnaissance(args) up to phase 1 (lines 135-149)
RunCall ==
    /\ pp_pc = "idle"
    /\ \E raw \in RawTargets, no_map \in BOOLEAN :
          /\ pp_target' = StrStrip(StrLower(raw))
          /\ pp_no_map' = no_map
    /\ pp_pc' = "phase1"
    /\ UNCHANGED <<pp_subdomains, pp_subdomain_list, pp_dns_results, pp_alive_hosts,
                   pp_geo_results, pp_records, pp_markers, pp_log>>
    /\ UNCHANGED <<cleanVars, enumVars, geoVars, dnsVars, mapVars, singleVars>>

\* phase 1 (lines 150-158): enumerate returns a set; an empty one ends the
\* run with None, otherwise the target is added and the names sorted
Phase1Enumerate ==
    /\ pp_pc = "phase1"
    /\ \E subdomains \in PipeEnumResults :
          /\ pp_subdomains' =
                 IF subdomains = {} THEN {} ELSE WithBaseDomain(subdomains, pp_target)
          /\ pp_subdomain_list' =
                 IF subdomains = {} THEN <<>>
                 ELSE Sorted(WithBaseDomain(subdomains, pp_target))
          /\ pp_pc' = IF subdomains = {} THEN "none" ELSE "phase2"
          /\ pp_log' = Append(pp_log, [call |-> "enumerate", arg |-> {pp_target},
                                       returned |-> subdomains,
                                       raised |-> FALSE])
    /\ UNCHANGED <<pp_target, pp_no_map, pp_dns_results, pp_alive_hosts,
                   pp_geo_results, pp_records, pp_markers>>
    /\ UNCHANGED <<cleanVars, enumVars, geoVars, dnsVars, mapVars, singleVars>>

\* enumerate raises (an answer of unexpected shape in _query_crtsh): the
\* exception leaves run_reconnaissance and main (lines 339-341)
Phase1Raises ==
    /\ pp_pc = "phase1"
    /\ pp_pc' = "raised"
    /\ pp_log' = Append(pp_log, [call |-> "enumerate", arg |-> {pp_target},
                                 returned |-> {},
                                 raised |-> TRUE])
    /\ UNCHANGED <<pp_target, pp_no_map, pp_subdomains, pp_subdomain_list,
                   pp_dns_results, pp_alive_hosts, pp_geo_results, pp_records,
                   pp_markers>>
    /\ UNCHANGED <<cleanVars, enumVars, geoVars, dnsVars, mapVars, singleVars>>

\* phase 2 (lines 165-179): resolve_bulk and the alive filter; no alive host
\* ends the run with None
Phase2Resolve ==
    /\ pp_pc = "phase2"
    /\ \E dns_map \in PipeDnsResults(pp_subdomain_list) :
          \E order \in {pp_subdomain_list, Reverse(pp_subdomain_list)} :
              /\ pp_dns_results' = dns_map
              /\ pp_alive_hosts' = AliveHosts(dns_map, order)
              /\ pp_pc' = AfterResolve(AliveHosts(dns_map, order))
    /\ pp_log' = Append(pp_log, [call |-> "resolve_bulk",
                                 arg |-> SetOf(pp_subdomain_list), returned |-> {}, raised |-> FALSE])
    /\ UNCHANGED <<pp_target, pp_no_map, pp_subdomains, pp_subdomain_list,
                   pp_geo_results, pp_records, pp_markers>>
    /\ UNCHANGED <<cleanVars, enumVars, geoVars, dnsVars, mapVars, singleVars>>

\* the addresses of the alive hosts (line 187)
AliveIps == {pp_dns_results[pp_alive_hosts[i]].ip : i \in DOMAIN pp_alive_hosts}

\* phases 3 and 4 (lines 186-217): locate_batch and the aggregation
Phase3Locate ==
    /\ pp_pc = "phase3"
    /\ \E geo_map \in PipeGeoResults(AliveIps) :
          /\ pp_geo_results' = geo_map
          /\ pp_records' = Aggregate(pp_alive_hosts, pp_dns_results, geo_map)
    /\ pp_log' = Append(pp_log, [call |-> "locate_batch", arg |-> AliveIps,
                                 returned |-> {}, raised |-> FALSE])
    /\ pp_pc' = "phase5"
    /\ UNCHANGED <<pp_target, pp_no_map, pp_subdomains, pp_subdomain_list,
                   pp_dns_results, pp_alive_hosts, pp_markers>>
    /\ UNCHANGED <<cleanVars, enumVars, geoVars, dnsVars, mapVars, singleVars>>

\* locate_batch raises (line 177 of geo_intel.py): the exception leaves
\* run_reconnaissance
Phase3Raises ==
    /\ pp_pc = "phase3"
    /\ pp_pc' = "raised"
    /\ pp_log' = Append(pp_log, [call |-> "locate_batch", arg |-> AliveIps,
                                 returned |-> {},
                                 raised |-> TRUE])
    /\ UNCHANGED <<pp_target, pp_no_map, pp_subdomains, pp_subdomain_list,
                   pp_dns_results, pp_alive_hosts, pp_geo_results, pp_records,
                   pp_markers>>
    /\ UNCHANGED <<cleanVars, enumVars, geoVars, dnsVars, mapVars, singleVars>>

\* phase 5 (lines 225-253): the map, unless disabled or without points, and
\* the return of the DataFrame
Phase5Output ==
    /\ pp_pc = "phase5"
    /\ pp_markers' = IF pp_no_map THEN <<>> ELSE GenerateMarkers(MapPoints(pp_records))
    /\ pp_log' = IF ~pp_no_map /\ MapPoints(pp_records) # <<>>
                 THEN Append(pp_log, [call |-> "generate", arg |-> {pp_target},
                                      returned |-> {}, raised |-> FALSE])
                 ELSE pp_log
    /\ pp_pc' = "done"
    /\ UNCHANGED <<pp_target, pp_no_map, pp_subdomains, pp_subdomain_list,
                   pp_dns_results, pp_alive_hosts, pp_geo_results, pp_records>>
    /\ UNCHANGED <<cleanVars, enumVars, geoVars, dnsVars, mapVars, singleVars>>

NextPipe ==
    \/ RunCall
    \/ Phase1Enumerate
    \/ Phase1Raises
    \/ Phase2Resolve
    \/ Phase3Locate
    \/ Phase3Raises
    \/ Phase5Output

---------------------------------------------------------------------------
(* Specifications: one per component, each from the state after construction *)

Init ==
    /\ InitClean /\ InitEnum /\ InitGeo /\ InitDns /\ InitMap /\ InitPipe
    /\ InitSingle

NextClean == CleanCall
SpecClean == Init /\ [][NextClean]_vars
SpecEnum == Init /\ [][NextEnum]_vars
\* a call that is under way goes on: enumerate is sequential code whose
\* requests carry a timeout and whose sleeps are finite
SpecEnumLive == SpecEnum /\ WF_vars(NextEnum)
SpecGeo == Init /\ [][NextGeo]_vars
SpecDns == Init /\ [][NextDns]_vars
SpecMap == Init /\ [][NextMap]_vars
SpecPipe == Init /\ [][NextPipe]_vars
SpecSingle == Init /\ [][NextSingle]_vars

---------------------------------------------------------------------------
(* Reading the request log of enumerate *)

IsGet(e, src) == e.op = "get" /\ e.src = src
IsSleep(e)    == e.op = "sleep"
\* the requests sent to a provider so far
GetCount(src) == Cardinality({i \in DOMAIN en_log : IsGet(en_log[i], src)})
\* the attempt number (1, 2, 3) of the primary request at position i
AttemptNo(i) == Cardinality({j \in 1..i : IsGet(en_log[j], "crtsh")})
LaterGet(i, src) == \E j \in (i + 1)..Len(en_log) : IsGet(en_log[j], src)
LaterSleep(i)    == \E j \in (i + 1)..Len(en_log) : IsSleep(en_log[j])
\* _query_crtsh is over, by return or by exception
PrimaryOver   == en_pc \in {"certspotter", "hackertarget", "done", "raised"}
\* enumerate is over, by return or by exception
EnumerateOver == en_pc \in {"done", "raised"}

IsTimeout(e)     == IsGet(e, "crtsh") /\ e.exc = "Timeout"
IsUnavailable(e) == IsGet(e, "crtsh") /\ e.exc = "none" /\ e.status = 503
Is5xx(e)         == IsGet(e, "crtsh") /\ e.exc = "none" /\ e.status \in 500..599
\* a hard error: a connection error, an error status other than 503, or a
\* body that is no JSON
IsHardError(e) ==
    /\ IsGet(e, "crtsh")
    /\ \/ e.exc = "ConnectionError"
       \/ e.exc = "none" /\ e.status >= 400 /\ e.status # 503
       \/ e.exc = "none" /\ e.status < 400 /\ e.body = "not_json"

---------------------------------------------------------------------------
(* Claims *)

\* C1: the map resolve_bulk returns has exactly the input names as keys,
\* one record per name, for every list, every max_workers >= 1 and whatever
\* the lookups do (answer, fail with any DNS error, raise).
C1_ResolveBulkTotal ==
    dns_pc = "done" =>
        /\ DOMAIN dns_results = SetOf(dns_subdomains)
        /\ \A s \in DOMAIN dns_results : dns_results[s].subdomain = s

\* resolve_bulk returned for a list that names one subdomain twice, with a
\* task that raised, a lookup that failed and a lookup that answered
C1_Witness ==
    /\ dns_pc = "done"
    /\ Len(dns_subdomains) = 3
    /\ Cardinality(SetOf(dns_subdomains)) = 2
    /\ \E i \in DOMAIN dns_futures : dns_futures[i].outcome.raised
    /\ \E s \in DOMAIN dns_results : dns_results[s].is_alive
    /\ \E s \in DOMAIN dns_results : dns_results[s].error = "NXDOMAIN"

\* C2: the map locate_batch returns has exactly the distinct input addresses
\* as keys, whatever each batch query answers or however it fails.
C2_LocateBatchKeysAreInput ==
    geo_pc = "done" => DOMAIN geo_results = SetOf(geo_ips)

\* C3: between any two consecutive batch submissions of locate_batch the
\* rate-limit delay is slept, whether the earlier batch succeeded or failed.
C3_SleepBetweenBatches ==
    \A i \in 1..(Len(geo_log) - 1) :
        geo_log[i].op = "post" => geo_log[i + 1] = GeoSleepEvent(RATE_LIMIT_DELAY_MS)

\* C4: enumerate returns a set and raises no exception, whatever the three
\* providers answer (timeout, 503, other error status, connection error,
\* non-JSON body, parseable body of unexpected shape).
C4_EnumerateNeverRaises == en_pc # "raised"

\* C5 as stated: in _query_crtsh every timeout and every 5xx response on
\* attempt 1 or 2 is followed by a further attempt at the primary provider.
C5_Any5xxRetried ==
    PrimaryOver =>
        \A i \in DOMAIN en_log :
            ((IsTimeout(en_log[i]) \/ Is5xx(en_log[i])) /\ AttemptNo(i) <= 2)
                => LaterGet(i, "crtsh")

\* C5 amended: every timeout and every 503 response on attempt 1 or 2 is
\* followed by a further attempt at the primary provider; a 5xx status other
\* than 503 is followed by none.
C5_TimeoutAnd503Retried ==
    PrimaryOver =>
        \A i \in DOMAIN en_log :
            /\ ((IsTimeout(en_log[i]) \/ IsUnavailable(en_log[i])) /\ AttemptNo(i) <= 2)
                    => LaterGet(i, "crtsh")
            /\ (Is5xx(en_log[i]) /\ ~IsUnavailable(en_log[i]))
                    => ~LaterGet(i, "crtsh")

\* a timeout on attempt 1 and a 503 on attempt 2 were each followed by
\* another attempt
C5_Witness ==
    /\ PrimaryOver
    /\ Len(en_log) >= 5
    /\ IsTimeout(en_log[1])
    /\ IsUnavailable(en_log[3])
    /\ IsGet(en_log[5], "crtsh")

\* C6: the sleep between attempt n and attempt n+1 (n = 1, 2) of
\* _query_crtsh is RETRY_DELAY * n, after a timeout as after a 503.
C6_BackoffIsLinear ==
    \A i \in DOMAIN en_log :
        ((IsTimeout(en_log[i]) \/ IsUnavailable(en_log[i])) /\ AttemptNo(i) <= 2)
            => /\ i < Len(en_log)
               /\ en_log[i + 1] = SleepEvent(RETRY_DELAY * AttemptNo(i))

\* C7: after a hard error of a primary attempt (non-JSON body, non-retryable
\* HTTP failure, connection error) no further request goes to the primary
\* provider, no backoff sleep follows, and the fallback chain still runs:
\* enumerate does not raise and queries the secondary provider.
C7_HardErrorAbandonsPrimary ==
    \A i \in DOMAIN en_log :
        IsHardError(en_log[i]) =>
            /\ ~LaterGet(i, "crtsh")
            /\ ~LaterSleep(i)
            /\ PrimaryOver
            /\ en_pc # "raised"
            /\ en_crt_results = {}
            /\ (en_pc \in {"hackertarget", "done"} => LaterGet(i, "certspotter"))

\* a second attempt, made after a timeout and its sleep, got a body that is
\* no JSON, and enumerate went on to its end
C7_Witness ==
    /\ en_pc = "done"
    /\ Len(en_log) >= 4
    /\ IsTimeout(en_log[1])
    /\ IsSleep(en_log[2])
    /\ en_log[3].body = "not_json"
    /\ IsHardError(en_log[3])
    /\ IsGet(en_log[4], "certspotter")

\* C8: the secondary provider is queried exactly once iff the primary
\* yielded fewer than 10 accepted names (also when the primary failed and
\* yielded none), never more than once, and a failed secondary query leaves
\* the collected set unchanged.
C8_SecondaryOnceIffFewerThan10 ==
    /\ GetCount("certspotter") <= 1
    /\ EnumerateOver =>
          (GetCount("certspotter") = 1 <=> Cardinality(en_crt_results) < 10)
    /\ \A i \in DOMAIN en_log :
          (IsGet(en_log[i], "certspotter") /\ en_log[i].outcome = "failed")
              => en_subdomains \subseteq en_crt_results \cup en_hackertarget_results

\* C9: the tertiary provider is queried exactly once iff the set combined
\* from the primary and the secondary provider has fewer than 5 names, and
\* never otherwise.
C9_TertiaryOnceIffFewerThan5 ==
    /\ GetCount("hackertarget") <= 1
    /\ EnumerateOver =>
          (GetCount("hackertarget") = 1
              <=> Cardinality(en_crt_results \cup en_certspotter_results) < 5)

---------------------------------------------------------------------------
(* Names returned by enumerate *)

\* n is one or more characters, then ".", then d
IsProperSubdomain(n, d) ==
    Len(n) > Len(d) + 1 /\ EndsWith(n, <<".">> \o d)

\* C11: every name in the set returned by enumerate(D) is a proper
\* subdomain of D: some labels, then ".", then D, so that the match with D
\* falls on a label boundary.
C11_ReturnedNamesOnLabelBoundary ==
    en_pc = "done" =>
        \A n \in en_subdomains : IsProperSubdomain(n, en_domain)

\* the provider's query succeeded: an answer without error status whose
\* body has the provider's format
QuerySucceeded(e) ==
    /\ e.op = "get"
    /\ e.exc = "none"
    /\ e.status < 400
    /\ \/ e.src = "crtsh" /\ e.body = "blank"
       \/ /\ e.src \in {"crtsh", "certspotter"}
          /\ e.body = "json"
          /\ e.resp.body.data.t = "list"
          /\ \A k \in DOMAIN e.resp.body.data.items :
                 e.resp.body.data.items[k].t = "dict"
       \/ e.src = "hackertarget" /\ e.body = "text"

\* the raw names a successful answer reports
ReportedNames(e) ==
    IF e.body = "blank" THEN {}
    ELSE IF e.src = "crtsh"
    THEN LET items == e.resp.body.data.items
         IN  UNION {{SplitOn(items[k].name_value, "\n")[j] :
                        j \in DOMAIN SplitOn(items[k].name_value, "\n")} :
                    k \in DOMAIN items}
    ELSE IF e.src = "certspotter"
    THEN LET items == e.resp.body.data.items
         IN  UNION {{items[k].dns_names[j] : j \in DOMAIN items[k].dns_names} :
                    k \in DOMAIN items}
    ELSE LET lines == SplitOn(e.resp.body.text, "\n")
         IN  {SplitOn(lines[k], ",")[1] :
                 k \in {j \in DOMAIN lines : Contains(lines[j], <<",">>)}}

\* the reported names that normalization accepts
AcceptedNames(e, domain) ==
    UNION {_clean_subdomain(n, domain) : n \in ReportedNames(e)}

\* C12: the set returned by enumerate is the union, over the providers
\* consulted whose query succeeded, of the names of their answers that
\* normalization accepts: no such name is dropped, no other name returned.
C12_ReturnedSetIsUnionOfAccepted ==
    en_pc = "done" =>
        en_subdomains =
            UNION {AcceptedNames(en_log[i], en_domain) :
                      i \in {j \in DOMAIN en_log : QuerySucceeded(en_log[j])}}

---------------------------------------------------------------------------
(* Cancellation of resolve_bulk, and the records of resolve_single *)

\* C13: when resolve_bulk is cancelled while it runs, no further lookup is
\* started after the signal and the call returns the partial map collected so
\* far instead of ending without a result.
C13_CancelStopsLookupsAndReturnsPartial ==
    dns_interrupt.raised =>
        /\ Cardinality(Started) = dns_interrupt.started
        /\ dns_pc # "interrupted"

\* the futures whose task has ended
Completed == {i \in DOMAIN dns_futures : dns_futures[i].state \in {"finished", "yielded"}}

\* the record resolve_single returned has the shape of its lookup outcome
RecordShape(f) ==
    LET r == f.outcome.result
    IN  /\ f.a.kind = "answer" =>
              /\ ~f.outcome.raised
              /\ r.is_alive /\ r.ip = f.a.ip /\ r.error = "None"
        /\ f.a.kind \in {"NXDOMAIN", "NoAnswer", "Timeout"} =>
              /\ ~f.outcome.raised
              /\ ~r.is_alive /\ r.ip = "None" /\ r.error = f.a.kind
        /\ f.a.kind = "exception" =>
              /\ ~f.outcome.raised
              /\ ~r.is_alive /\ r.ip = "None" /\ r.error = f.a.msg

---------------------------------------------------------------------------
(* Failed batches of locate_batch *)

IsPost(e) == e.op = "post"

\* the POST events of the call, in order
Posts == SelectSeq(geo_log, IsPost)

\* C15: when a batch fails, at whatever point of handling it, every address
\* of that batch ends up in the result with success=false and all other
\* fields empty, and the addresses of the batches that did not fail have the
\* records their own answers gave them.
C15_FailedBatchAllMarkedFailed ==
    geo_pc \in {"done", "raised"} =>
        \A i \in DOMAIN Posts :
            IF ~Posts[i].ok
            THEN \A a \in Posts[i].ips :
                     a \in DOMAIN geo_results /\ geo_results[a] = GeoDataFailed(a)
            ELSE \A a \in Posts[i].ips \cap DOMAIN Posts[i].stored :
                     a \in DOMAIN geo_results /\ geo_results[a] = Posts[i].stored[a]

\* C16: every batch is submitted whatever happened to the earlier ones; and
\* with 150 distinct addresses whose second batch's query fails, the result
\* has all 150 keys, the first 100 as the provider's answer gave them and the
\* last 50 with success=false.
C16_FailedBatchDoesNotStopLaterOnes ==
    geo_pc \in {"done", "raised"} =>
        /\ Len(Posts) = Len(geo_batches)
        /\ \A i \in DOMAIN Posts : Posts[i].ips = SetOf(geo_batches[i])
        /\ (Len(geo_unique_ips) = BATCH_SIZE + 50 /\ Posts[2].query_failed) =>
              /\ DOMAIN geo_results = SetOf(geo_unique_ips)
              /\ \A a \in Posts[1].ips \cap DOMAIN Posts[1].stored :
                     geo_results[a] = Posts[1].stored[a]
              /\ \A a \in Posts[2].ips : geo_results[a] = GeoDataFailed(a)

---------------------------------------------------------------------------
(* The classifier get_marker_color *)

\* the fragments of the major cloud providers
CloudFragments == AwsFragments \cup GoogleFragments \cup AzureFragments

\* the tier by fixed precedence on the lower-cased concatenation
TierByPrecedence(org, isp) ==
    LET text == StrLower(OrElse(org, <<>>) \o OrElse(isp, <<>>))
    IN  IF AnyIn(CloudFragments, text) THEN "green"
        ELSE IF AnyIn(CdnList, text) THEN "orange"
        ELSE IF AnyIn(VpsList, text) THEN "blue"
        ELSE "red"

---------------------------------------------------------------------------
(* The aggregated records of run_reconnaissance *)

\* the records of the run have been built
Aggregated == pp_pc \in {"phase5", "done"}

\* the indices of the aggregated records of one name
RecordsOf(sub) == {i \in DOMAIN pp_records : pp_records[i].subdomain = sub}

IsAliveRecord(r) == r.is_alive /\ r.ip # "None"

\* the geo fields of an aggregated record are those of the record g
SameGeoFields(row, g) ==
    /\ row.country = g.country /\ row.country_code = g.country_code
    /\ row.region = g.region /\ row.city = g.city
    /\ row.lat = g.lat /\ row.lon = g.lon
    /\ row.isp = g.isp /\ row.org = g.org
    /\ row.as_number = g.as_number /\ row.geo_success = g.success

\* every geo field is empty and the lookup is marked unsuccessful
EmptyGeoFields(row) ==
    /\ row.country = NoneVal /\ row.country_code = NoneVal
    /\ row.region = NoneVal /\ row.city = NoneVal
    /\ row.lat = NoneVal /\ row.lon = NoneVal
    /\ row.isp = NoneVal /\ row.org = NoneVal
    /\ row.as_number = NoneVal /\ row.geo_success = FALSE

\* C17: the pipeline produces exactly one aggregated record for every
\* resolution record that is alive with an address and none for a record
\* that is not alive; the record's geo fields are those of the geo record
\* keyed by its address, and an address absent from the geo map gives an
\* unsuccessful record with empty fields.
C17_OneRecordPerAliveHost ==
    Aggregated =>
        /\ \A sub \in DOMAIN pp_dns_results :
               Cardinality(RecordsOf(sub)) =
                   IF IsAliveRecord(pp_dns_results[sub]) THEN 1 ELSE 0
        /\ \A i \in DOMAIN pp_records :
               LET row == pp_records[i]
               IN  /\ row.subdomain \in DOMAIN pp_dns_results
                   /\ row.ip = pp_dns_results[row.subdomain].ip
                   /\ row.cname = pp_dns_results[row.subdomain].cname
                   /\ IF row.ip \in DOMAIN pp_geo_results
                      THEN SameGeoFields(row, pp_geo_results[row.ip])
                      ELSE EmptyGeoFields(row)

\* a run has ended with a record whose address has a geo record, a record
\* whose address has none, and a name that is not alive
C17_Witness ==
    /\ pp_pc = "done"
    /\ \E i \in DOMAIN pp_records :
           pp_records[i].ip \in DOMAIN pp_geo_results /\ pp_records[i].geo_success
    /\ \E i \in DOMAIN pp_records : pp_records[i].ip \notin DOMAIN pp_geo_results
    /\ \E sub \in DOMAIN pp_dns_results : ~pp_dns_results[sub].is_alive

\* C18: every aggregated record of a finished run has a risk tier, the
\* classification of its organization and ISP text, whether or not it has
\* coordinates and whether or not the map is rendered.
C18_EveryRecordHasRiskTier ==
    pp_pc = "done" =>
        \A i \in DOMAIN pp_records :
            \E k \in DOMAIN pp_markers :
                /\ pp_markers[k].subdomain = pp_records[i].subdomain
                /\ pp_markers[k].color =
                       TierByPrecedence(pp_records[i].org, pp_records[i].isp)

---------------------------------------------------------------------------
(* The early ends of run_reconnaissance, and the names it resolves *)

\* the calls of the run to the stage named
CallsOf(call) == {i \in DOMAIN pp_log : pp_log[i].call = call}

\* enumerate returned the empty set
EnumeratedNothing ==
    /\ pp_log # <<>>
    /\ ~pp_log[1].raised
    /\ pp_log[1].returned = {}

\* resolve_bulk returned, and none of its records is alive
NothingAlive ==
    /\ CallsOf("resolve_bulk") # {}
    /\ \A sub \in DOMAIN pp_dns_results : ~pp_dns_results[sub].is_alive

\* C21: when enumerate yields an empty set the run ends without DNS lookup,
\* geolocation, aggregation or rendering; when no resolved name is alive it
\* ends without geolocation, aggregation or rendering; both times it
\* returns no result and does not raise.
C21_EarlyEndsWithoutLaterStages ==
    /\ EnumeratedNothing =>
          /\ pp_pc = "none"
          /\ CallsOf("resolve_bulk") = {}
    /\ (EnumeratedNothing \/ NothingAlive) =>
          /\ pp_pc = "none"
          /\ CallsOf("locate_batch") = {}
          /\ CallsOf("generate") = {}
          /\ pp_records = <<>>
          /\ pp_markers = <<>>

\* a run has ended after resolving three names none of which is alive
C21_Witness ==
    /\ pp_pc = "none"
    /\ NothingAlive
    /\ Len(pp_subdomain_list) = 3
    /\ Len(pp_log) = 2

---------------------------------------------------------------------------
(* Concurrency of resolve_bulk *)

\* the futures as_completed has yielded to the collecting loop
Yielded == {i \in DOMAIN dns_futures : dns_futures[i].state = "yielded"}

\* the record the collecting loop stores for a future
RecordOfFuture(f) ==
    IF f.outcome.raised
    THEN DNSResult(f.sub, "None", FALSE, "None", f.outcome.msg)
    ELSE f.outcome.result

\* the results map holds, for exactly the names collected so far, the record
\* of a collected future of that name
ResultsAreCollectedRecords ==
    /\ DOMAIN dns_results = {dns_futures[i].sub : i \in Yielded}
    /\ \A s \in DOMAIN dns_results :
           /\ dns_results[s].subdomain = s
           /\ \E i \in Yielded :
                  dns_futures[i].sub = s /\ dns_results[s] = RecordOfFuture(dns_futures[i])

\* a step of a worker thread: a task is taken or ended
WorkerStep ==
    \E i \in DOMAIN dns_futures :
        /\ i \in DOMAIN dns_futures'
        /\ dns_futures[i].state \in {"queued", "running"}
        /\ dns_futures'[i].state # dns_futures[i].state

\* C23: the results map is written by the collecting thread only, never by
\* a worker thread, and under every interleaving of completions no name's
\* record is lost or replaced by another name's record.
C23_SingleWriterKeepsRecords ==
    /\ [](dns_pc \in {"collect", "done"} => ResultsAreCollectedRecords)
    /\ [][WorkerStep => dns_results' = dns_results]_vars

\* the third task was collected while the first is still running
C23_Witness ==
    /\ dns_pc = "collect"
    /\ Len(dns_futures) = 3
    /\ dns_futures[1].state = "running"
    /\ dns_futures[3].state = "yielded"
    /\ dns_futures[3].sub \in DOMAIN dns_results
    /\ dns_futures[3].sub # dns_futures[1].sub

\* C24: at every moment the number of address lookups in flight is at most
\* max_workers, for any number of input names.
C24_InFlightAtMostMaxWorkers ==
    Cardinality(Running) <= dns_max_workers

\* the pool is full and a task waits in the queue
C24_Witness ==
    /\ dns_max_workers = 2
    /\ Cardinality(Running) = 2
    /\ \E i \in DOMAIN dns_futures : dns_futures[i].state = "queued"

\* how often rtype occurs in the lookups of a future
LookupCount(f, rtype) ==
    Cardinality({k \in DOMAIN f.lookups : f.lookups[k] = rtype})

\* C25: one resolution task is submitted per input name and each task makes
\* exactly one address lookup: no failed lookup, of any kind, is retried.
C25_OneTaskOneLookup ==
    /\ dns_pc \in {"collect", "done"} =>
          /\ Len(dns_futures) = Len(dns_subdomains)
          /\ \A i \in DOMAIN dns_futures : dns_futures[i].sub = dns_subdomains[i]
    /\ \A i \in Completed : LookupCount(dns_futures[i], "A") = 1
    /\ \A i \in DOMAIN dns_futures \ Completed : dns_futures[i].lookups = <<>>

\* a call has returned after three tasks, one of which timed out
C25_Witness ==
    /\ dns_pc = "done"
    /\ Len(dns_futures) = 3
    /\ \E i \in DOMAIN dns_futures : dns_futures[i].a.kind = "Timeout"
    /\ \E i \in DOMAIN dns_futures : dns_futures[i].a.kind = "NXDOMAIN"

\* C26: in resolve_single the CNAME lookup is attempted only after a
\* successful address lookup, at most once, and its failure leaves the
\* record alive with its address and an empty alias; no CNAME lookup is made
\* for a name whose address lookup failed.
C26_AliasLookupOnlyAfterAddress ==
    \A i \in Completed :
        LET f == dns_futures[i]
        IN  /\ LookupCount(f, "CNAME") <= 1
            /\ LookupCount(f, "CNAME") = 1 <=> f.a.kind = "answer"
            /\ f.a.kind # "answer" => f.c = NoCnameLookup
            /\ (f.a.kind = "answer" /\ f.c.kind # "answer") =>
                   /\ ~f.outcome.raised
                   /\ f.outcome.result.is_alive
                   /\ f.outcome.result.ip = f.a.ip
                   /\ f.outcome.result.cname = "None"
                   /\ f.outcome.result.error = "None"

\* one task ended with an address and a failed CNAME lookup, another
\* without address
C26_Witness ==
    /\ \E i \in Completed :
           dns_futures[i].a.kind = "answer" /\ dns_futures[i].c.kind = "exception"
    /\ \E i \in Completed : dns_futures[i].a.kind = "NoAnswer"

\* the collecting loop takes a finished future
CollectStep(i) ==
    /\ i \in DOMAIN dns_futures
    /\ i \in DOMAIN dns_futures'
    /\ dns_futures[i].state = "finished"
    /\ dns_futures'[i].state = "yielded"

\* C27: an exception escaping a resolution task is caught where the results
\* are collected and recorded as a not-alive record with the exception's
\* message as error; resolve_bulk goes on and the records of the other
\* names are unchanged.
C27_RaisedTaskIsRecorded ==
    [][\A i \in DOMAIN dns_futures :
           (CollectStep(i) /\ dns_futures[i].outcome.raised) =>
               /\ dns_pc' = "collect"
               /\ dns_futures[i].sub \in DOMAIN dns_results'
               /\ dns_results'[dns_futures[i].sub] =
                      DNSResult(dns_futures[i].sub, "None", FALSE, "None",
                                dns_futures[i].outcome.msg)
               /\ \A s \in DOMAIN dns_results \ {dns_futures[i].sub} :
                      s \in DOMAIN dns_results' /\ dns_results'[s] = dns_results[s]]_vars

\* a call has returned with the record of a task that raised beside the
\* record of an alive name
C27_Witness ==
    /\ dns_pc = "done"
    /\ \E i \in DOMAIN dns_futures :
           /\ dns_futures[i].outcome.raised
           /\ dns_results[dns_futures[i].sub].error = dns_futures[i].outcome.msg
    /\ \E s \in DOMAIN dns_results : dns_results[s].is_alive

---------------------------------------------------------------------------
(* Batching and pacing of locate_batch *)

LocateBatchOver == geo_pc \in {"done", "raised"}

Sleeps == SelectSeq(geo_log, LAMBDA e : e.op = "sleep")

\* C28: locate_batch never sleeps before the first batch submission nor
\* after the last one; with a single batch or an empty input it never
\* sleeps at all.
C28_NoSleepBeforeFirstNorAfterLast ==
    /\ geo_log # <<>> => geo_log[1].op = "post"
    /\ \A k \in DOMAIN geo_log :
           geo_log[k].op = "sleep" =>
               /\ k > 1
               /\ geo_log[k - 1].op = "post"
               /\ geo_log[k - 1].batch_idx < Len(geo_batches) - 1
    /\ (LocateBatchOver /\ geo_log # <<>>) => geo_log[Len(geo_log)].op = "post"
    /\ Len(geo_batches) <= 1 => Sleeps = <<>>

\* a call over three batches ended after two sleeps, its last event a POST
C28_Witness ==
    /\ geo_pc = "done"
    /\ Len(geo_batches) = 3
    /\ Len(Sleeps) = 2
    /\ geo_log[Len(geo_log)].op = "post"

\* the distinct addresses of the input
DistinctIps == SetOf(geo_ips)

\* ceil(n / BATCH_SIZE)
BatchesNeeded(n) == (n + BATCH_SIZE - 1) \div BATCH_SIZE

\* C29: the batches partition the deduplicated address set: every distinct
\* input address is in exactly one bulk query however often it occurs in
\* the input, no bulk query carries more than BATCH_SIZE addresses, and one
\* query is issued per batch, so n distinct addresses cause ceil(n/100)
\* queries.
C29_BatchesPartitionDistinctAddresses ==
    /\ \A k \in DOMAIN Posts :
           /\ Cardinality(Posts[k].ips) <= BATCH_SIZE
           /\ Posts[k].ips # {}
           /\ Posts[k].ips \subseteq DistinctIps
           /\ Posts[k].batch_idx = k - 1
           /\ Posts[k].ips = SetOf(geo_batches[k])
           /\ \A j \in DOMAIN Posts : j # k => Posts[j].ips \cap Posts[k].ips = {}
    /\ LocateBatchOver =>
           /\ Len(Posts) = BatchesNeeded(Cardinality(DistinctIps))
           /\ \A a \in DistinctIps :
                  Cardinality({k \in DOMAIN Posts : a \in Posts[k].ips}) = 1

\* 150 distinct addresses, two of them given twice, went out in two queries
C29_Witness ==
    /\ geo_pc = "done"
    /\ Cardinality(DistinctIps) = BATCH_SIZE + 50
    /\ Len(geo_ips) > Cardinality(DistinctIps)
    /\ Len(Posts) = 2

---------------------------------------------------------------------------
(* The single-address path *)

LocateSingleOver == ls_pc \in {"returned", "raised"}

\* the provider answered, with a JSON object that reports success
ProviderReportsSuccess(resp) ==
    /\ resp.exc = "none"
    /\ resp.status < 400
    /\ resp.body.t = "json"
    /\ resp.body.data.t = "dict"
    /\ resp.body.data.status = "success"

\* C30: locate_single never raises; it returns success=true with the
\* provider's fields only when the provider reports success for the
\* address; on a network error, an error status, a malformed response or a
\* reported failure it returns a record for the same address with
\* success=false and every other field empty.
C30_LocateSingleSameSemantics ==
    LocateSingleOver =>
        /\ ~ls_result.raised
        /\ ls_pc = "returned"
        /\ ls_result.result.ip = ls_ip
        /\ ls_result.result.success <=> ProviderReportsSuccess(ls_resp)
        /\ ls_result.result.success =>
               ls_result.result = GeoDataFromItem(ls_ip, ls_resp.body.data)
        /\ ~ls_result.result.success =>
               ls_result.result = GeoDataFailed(ls_ip)

\* a call answered by a JSON list has returned a failed record
C30_Witness ==
    /\ ls_pc = "returned"
    /\ ls_resp.exc = "none"
    /\ ls_resp.status = 200
    /\ ls_resp.body.t = "json"
    /\ ls_resp.body.data.t = "list"
    /\ ls_result.result = GeoDataFailed(ls_ip)

---------------------------------------------------------------------------
(* Termination and resource bounds of enumerate *)

GetsInLog   == Cardinality({i \in DOMAIN en_log : en_log[i].op = "get"})
SleepsInLog == Cardinality({i \in DOMAIN en_log : IsSleep(en_log[i])})

EnumerateWithinBounds ==
    /\ GetCount("crtsh") <= 3
    /\ GetCount("certspotter") <= 1
    /\ GetCount("hackertarget") <= 1
    /\ GetsInLog <= 5
    /\ SleepsInLog <= 2

\* C31: every enumerate call ends (by returning, or by the exception of a
\* malformed primary answer), for every sequence of provider outcomes,
\* after at most 3 requests to the primary provider, at most 1 to the
\* secondary and at most 1 to the tertiary (at most 5 in total), and with at
\* most 2 backoff sleeps.
C31_EnumerateTerminatesWithinBounds ==
    /\ []EnumerateWithinBounds
    /\ <>EnumerateOver

\* a call that used everything it may: 3 primary requests, 2 sleeps, and
\* one request to each fallback provider
C31_Witness ==
    /\ en_pc = "done"
    /\ GetCount("crtsh") = 3
    /\ GetCount("certspotter") = 1
    /\ GetCount("hackertarget") = 1
    /\ GetsInLog = 5
    /\ SleepsInLog = 2

---------------------------------------------------------------------------
(* The records of resolve_bulk *)

HasAddress(r) == r.ip # "None"
HasError(r)   == r.error # "None"

\* C32: every record in the map of resolve_bulk has its key as subdomain
\* field, and is alive if and only if it has an address, if and only if it
\* has no error: never alive without an address, never dead without an
\* error value.
C32_RecordsAreConsistent ==
    \A s \in DOMAIN dns_results :
        LET r == dns_results[s]
        IN  /\ r.subdomain = s
            /\ r.is_alive <=> HasAddress(r)
            /\ HasAddress(r) <=> ~HasError(r)
            /\ ~(r.is_alive /\ ~HasAddress(r))
            /\ ~(~r.is_alive /\ ~HasError(r))

\* a returned map with an alive record, the record of a named DNS error and
\* the record of a task that raised
C32_Witness ==
    /\ dns_pc = "done"
    /\ \E s \in DOMAIN dns_results :
           dns_results[s].is_alive /\ HasAddress(dns_results[s])
    /\ \E s \in DOMAIN dns_results : dns_results[s].error = "NXDOMAIN"
    /\ \E i \in DOMAIN dns_futures :
           /\ dns_futures[i].outcome.raised
           /\ dns_results[dns_futures[i].sub].error = dns_futures[i].outcome.msg

=============================================================================
